---- MODULE Spec2Model ----
(***************************************************************************)
(* CodeCollab: the socket controller (SocketController), the in-memory     *)
(* session map (activeRoomSessions), the debounced persistence timers and  *)
(* the durable room store behind RoomController.                           *)
(*                                                                         *)
(* One service instance runs on one event loop: a handler runs to its next *)
(* await without interleaving; a continuation after an await is a step of  *)
(* its own.  Room sessions are JavaScript objects, so they live in a heap  *)
(* and the maps and closures hold references to them.                      *)
(***************************************************************************)
EXTENDS Integers, Sequences, FiniteSets, TLC

(* ------------------------------ bounds -------------------------------- *)
\* participant entries (and joins still loading) the clocked specification lets exist
MaxEntries == 2
\* prisma.room.update calls allowed to be in flight at once
MaxInFlight == 1
\* execution jobs the job specification lets be submitted
MaxJobs == 1
\* requests counted beyond the limit within one life of the limiter's key
MaxOverLimit == 2
\* recording entries the cursor specification lets the sessions collect
MaxRecorded == 3
\* prisma.room.update calls in flight at once where the store is slow
MaxWrites == 2

(* ------------------------- program constants -------------------------- *)
MAX_PARTICIPANTS == 10
PERSIST_DEBOUNCE_MS == 5000
EVICTION_DELAY_MS == 60000
FORCE_SHUTDOWN_MS == 30000
\* queueOptions.defaultJobOptions
DEFAULT_ATTEMPTS == 3
BACKOFF_DELAY_MS == 1000
\* addExecutionJob's default timeout of a run
DEFAULT_TIMEOUT_MS == 10000
\* the limit on submitted code (64KB)
MAX_CODE_LENGTH == 65536

\* one model tick of the clock, in milliseconds
TickMs == PERSIST_DEBOUNCE_MS
DebounceTicks == PERSIST_DEBOUNCE_MS \div TickMs
GraceTicks == EVICTION_DELAY_MS \div TickMs
ForceTicks == FORCE_SHUTDOWN_MS \div TickMs

\* rateLimiters.execution: 20 requests per 60 seconds
EXECUTION_LIMIT == 20
EXECUTION_WINDOW_S == 60

\* the limiter's clock moves in steps of this many seconds
LimiterTickS == 30

\* the time slots that make up one window
WindowSlots == EXECUTION_WINDOW_S \div LimiterTickS

(* ------------------------------ domains ------------------------------- *)
Sockets == {1, 2}
RoomIds == {1}
\* the room ids where a second session exists (its room has no record in the store)
TwoRoomIds == {1, 2}
\* enough object ids for every reference that can exist at once, plus one to allocate
ObjIds == 1..(2 * Cardinality(RoomIds) + Cardinality(Sockets) + 1)
NoRoomId == 0
NoSocket == 0

\* handshake tokens a client can present
Tokens == {"valid", "noid", "missing", "expired", "badsig"}
NoToken == "unset"

\* the identity a valid token carries: sockets 1 and 2 belong to one user
UserOf(s) == (s + 1) \div 2

NULL == "null"
WELCOME == "// Welcome to CodeCollab!"
\* texts a client can send in code_update (null is the client's sync request)
Texts == {"a", NULL}

\* the durable store at start: any set of rooms was created through createRoom
InitDbs == {[r \in R |-> [code |-> "stored", language |-> "python"]] : R \in SUBSET RoomIds}

(* --------------------------- Map helpers ------------------------------ *)
MapSet(f, k, v) == [x \in (DOMAIN f) \cup {k} |-> IF x = k THEN v ELSE f[x]]
MapDelete(f, k) == [x \in (DOMAIN f) \ {k} |-> f[x]]
Range(f) == {f[x] : x \in DOMAIN f}
SeqRange(q) == {q[i] : i \in 1..Len(q)}
RemoveAt(q, i) == SubSeq(q, 1, i - 1) \o SubSeq(q, i + 1, Len(q))

\* removes only the first entry of the socket (findIndex and splice)
RECURSIVE FilterOut_FirstOnly(_, _)
FilterOut_FirstOnly(q, s) ==
    IF q = <<>> THEN <<>>
    ELSE IF Head(q) = s THEN Tail(q)
         ELSE <<Head(q)>> \o FilterOut_FirstOnly(Tail(q), s)

\* Array.prototype.filter(p => p.socketId !== socket.id)
RECURSIVE FilterOut(_, _)
FilterOut(q, s) ==
    IF q = <<>> THEN <<>>
    ELSE IF Head(q) = s THEN FilterOut(Tail(q), s)
         ELSE <<Head(q)>> \o FilterOut(Tail(q), s)

\* participants.map(p => ({ userId, userName }))
Roster(q) == [i \in 1..Len(q) |-> UserOf(q[i])]

\* room.code || ''
CodeOrEmpty(c) == IF c = NULL \/ c = "" THEN "" ELSE c

VARIABLES
    conn,               \* socket -> "new" | "connected" | "refused" | "disconnected"
    token,              \* socket -> the token presented at the handshake
    listening,          \* socket -> handleConnection registered its listeners
    ioRooms,            \* socket -> socket.io rooms the socket is in
    joinAwait,          \* socket -> room id of its handleJoinRoom suspended at loadRoomSession
    discAwait,          \* socket -> handleDisconnect suspended at persistRoomCode
    users,              \* Map socket.id -> User (its roomId)
    activeRoomSessions, \* Map roomId -> session object
    heap,               \* session objects
    persistenceTimers,  \* Map roomId -> armed debounce timer
    evictionTimers,     \* roomId -> pending cleanup timers (time left of each)
    db,                 \* durable store: roomId -> record
    dbWrites,           \* prisma.room.update calls in flight
    emptyFor,           \* roomId -> ticks its session in memory has had no participant
    proc,               \* the server process: its phase and the forced-exit timer
    jobs,               \* the code-execution queue: the jobs added, by id
    cancelCall,         \* a cancelJob call: where it is and what it has read
    trunc,              \* an executor's output on its way through truncateOutput
    rlKey,              \* the rate limiter's counter in the cache: its value and its expiry
    rlReq,              \* request -> where its pass through the limiter is
    execAwait,          \* socket -> its handleExecuteCode or handleRequestHint suspended at its await
    recordingOn,        \* this specification follows the sessions' recordings
    peer,               \* a second service instance on the same store and broker
    timeouts,           \* the runtime's live setTimeout handles of the debounce
    passed,             \* requests the limiter passed on, per time slot of the last window
    emitted,            \* job -> terminal events sent to its room so far
    hintCooldown,       \* user -> time left of its hint:cooldown key (0 = no key)
    out                 \* what the last step emitted

vars == <<conn, token, listening, ioRooms, joinAwait, discAwait, users,
          activeRoomSessions, heap, persistenceTimers, evictionTimers,
          db, dbWrites, emptyFor, proc, jobs, cancelCall, trunc, rlKey, rlReq,
          execAwait, recordingOn, peer, timeouts, passed, emitted,
          hintCooldown, out>>

\* what only the specification of its own concern follows
auxVars == <<passed, emitted, hintCooldown>>

\* state the socket handlers, the clock and the worker never touch
restVars == <<cancelCall, trunc, rlKey, rlReq, execAwait, recordingOn, peer, timeouts,
              auxVars>>

\* what the rate limiter leaves alone
limiterFrame == <<conn, token, listening, ioRooms, joinAwait, discAwait, users,
                  activeRoomSessions, heap, persistenceTimers, evictionTimers,
                  db, dbWrites, emptyFor, proc, jobs, cancelCall, trunc,
                  execAwait, recordingOn, peer, timeouts, emitted, hintCooldown>>

\* HTTP requests of one client that can be in the limiter at once
Requests == {1, 2}

\* no cancelJob call is running
NoCancel == [pc |-> "idle", jobId |-> 0, ret |-> ""]

\* no string at all (null or undefined), told apart from every string by its empty run
NoString == <<[c |-> "", n |-> 0]>>

\* no output is being truncated
NoTrunc == [fn |-> "", input |-> NoString, once |-> NoString, twice |-> NoString]

(* ------------------------------ emits --------------------------------- *)
Msg(ev, to, room, code, roster, text) ==
    [ev |-> ev, to |-> to, room |-> room, code |-> code, roster |-> roster, text |-> text]

\* the connection of the second instance's client
PeerSocket == 3

\* the second instance: its client connection, its handleJoinRoom suspended at
\* loadRoomSession, its users entry, its session map and its debounce timers
NoPeer == [conn |-> "new", joinAwait |-> NoRoomId, users |-> NoRoomId,
           activeRoomSessions |-> <<>>, persistenceTimers |-> <<>>]

\* this instance's connected sockets that are in socket.io room r
LocalMembers(r, io, cn) == {s \in Sockets : cn[s] = "connected" /\ r \in io[s]}

\* the second instance's sockets in room r, which the Redis adapter relays to
RemoteMembers(r, p) ==
    IF p.conn = "connected" /\ p.users = r THEN {PeerSocket} ELSE {}

\* the connected sockets that are in socket.io room r, on either instance
IoMembers(r, io, cn) == LocalMembers(r, io, cn) \cup RemoteMembers(r, peer)

\* socket.emit reaches the socket only while it is connected
ToSocket(s, cn) == IF cn[s] = "connected" THEN {s} ELSE {}

(* ------------------------------ heap ---------------------------------- *)
\* room._lastRecordTime is not set
NoTime == -1

\* the types of the recording's events
RecordTypes == {"user_joined", "code_update", "execution", "hint_request", "user_left"}

\* of a type, no entry has a timestamp in the current 5 seconds
NoRecent == [type \in RecordTypes |-> 0]

\* entries of one type with a timestamp in the current 5 seconds: 0, 1, or this for more
Several == 2

\* a session object: recording is the number of entries of room.recording, recent
\* the number of them, by type, whose timestamp is in the current 5 seconds,
\* lastRecordTime the ticks since room._lastRecordTime, cursors the
\* cursorPosition of the sockets' participant entries
NewSession(code, language) ==
    [code |-> code, language |-> language, participants |-> <<>>,
     recording |-> 0, recent |-> NoRecent, lastRecordTime |-> NoTime, cursors |-> <<>>]

\* the code_update throttle of the recording
RECORD_THROTTLE_MS == 5000

\* Room.addRecordingEvent's limit
RECORDING_LIMIT == 1000

\* Room.addRecordingEvent of the Room model class: push, then keep the last 1000
addRecordingEvent(session) ==
    IF ~recordingOn THEN session
    ELSE IF session.recording + 1 > RECORDING_LIMIT
         THEN [session EXCEPT !.recording = RECORDING_LIMIT]
         ELSE [session EXCEPT !.recording = @ + 1]

\* room.recording.push(event)
RecordingPush(session, type) ==
    IF recordingOn
    THEN [session EXCEPT !.recording = @ + 1,
                         !.recent[type] = IF @ < Several THEN @ + 1 ELSE @]
    ELSE session

\* the throttled push of handleCodeUpdate
RecordingPushThrottled(session) ==
    IF recordingOn /\ (session.lastRecordTime = NoTime
                        \/ session.lastRecordTime * TickMs > RECORD_THROTTLE_MS)
    THEN [session EXCEPT !.recording = @ + 1, !.lastRecordTime = 0,
                         !.recent["code_update"] = IF @ < Several THEN @ + 1 ELSE @]
    ELSE session

FreshObj(h) == CHOOSE o \in ObjIds \ DOMAIN h : \A p \in ObjIds \ DOMAIN h : o <= p

\* objects something still refers to: the map, a timer closure, a suspended handler
Referenced(act, timers, da) ==
    Range(act) \cup {timers[r].obj : r \in DOMAIN timers}
               \cup {da[s].obj : s \in DOMAIN da}
               \cup {execAwait[s].obj : s \in DOMAIN execAwait}

Collect(h, act, timers, da) ==
    [o \in (DOMAIN h) \cap Referenced(act, timers, da) |-> h[o]]

\* everything but the output under truncation, with sessions under the ids rooms
InitServiceIn(rooms) ==
    /\ conn = [s \in Sockets |-> "new"]
    /\ token = [s \in Sockets |-> NoToken]
    /\ listening = [s \in Sockets |-> FALSE]
    /\ ioRooms = [s \in Sockets |-> {}]
    /\ joinAwait = [s \in Sockets |-> NoRoomId]
    /\ discAwait = <<>>
    /\ users = <<>>
    /\ activeRoomSessions = <<>>
    /\ heap = <<>>
    /\ persistenceTimers = <<>>
    /\ evictionTimers = [r \in rooms |-> <<>>]
    /\ db \in InitDbs
    /\ dbWrites = <<>>
    /\ emptyFor = [r \in rooms |-> 0]
    /\ proc = [phase |-> "up", forceLeft |-> 0]
    /\ jobs = <<>>
    /\ cancelCall = NoCancel
    /\ rlKey = [count |-> 0, ttl |-> 0]
    /\ rlReq = [q \in Requests |-> "idle"]
    /\ execAwait = <<>>
    /\ peer = NoPeer
    /\ timeouts = <<>>
    /\ passed = [i \in 1..WindowSlots |-> 0]
    /\ emitted = [j \in 1..MaxJobs |-> 0]
    /\ hintCooldown = [u \in {UserOf(s) : s \in Sockets} |-> 0]
    /\ out = {}

InitService == InitServiceIn(RoomIds)

\* a recording is written by the handlers and read by none of them: the
\* specifications of the other concerns leave the recordings out
Init == InitService /\ trunc = NoTrunc /\ recordingOn = FALSE

\* the service with its sessions' recordings followed
InitRecording == InitService /\ trunc = NoTrunc /\ recordingOn = TRUE

\* the service with two room ids
InitTwoRooms == InitServiceIn(TwoRoomIds) /\ trunc = NoTrunc /\ recordingOn = FALSE

(* ---------------------------- handshake ------------------------------- *)
\* a verification that does not look at the expiry
JwtVerify_IgnoreExpiration(t) ==
    CASE t = "badsig"  -> "JsonWebTokenError"
      [] OTHER         -> "ok"

\* jwt.verify(token, JWT_SECRET)
JwtVerify(t) ==
    CASE t = "expired" -> "TokenExpiredError"
      [] t = "badsig"  -> "JsonWebTokenError"
      [] OTHER         -> "ok"

\* io.use middleware: the error passed to next(), "" when the socket is let in
HandshakeError(t) ==
    IF t = "missing" THEN "Missing token"
    ELSE IF JwtVerify(t) = "ok" THEN ""
    ELSE IF JwtVerify(t) = "TokenExpiredError" THEN "Token expired"
    ELSE "Invalid token"

\* io.use + io.on('connection') -> handleConnection
Handshake(s, t) ==
    /\ conn[s] = "new"
    /\ token' = [token EXCEPT ![s] = t]
    /\ IF HandshakeError(t) = ""
       THEN /\ conn' = [conn EXCEPT ![s] = "connected"]
            /\ listening' = [listening EXCEPT ![s] = TRUE]
            /\ out' = {}
       ELSE /\ conn' = [conn EXCEPT ![s] = "refused"]
            /\ listening' = listening
            /\ out' = {Msg("connect_error", {s}, NoRoomId, "", <<>>, HandshakeError(t))}
    /\ UNCHANGED <<ioRooms, joinAwait, discAwait, users, activeRoomSessions, heap,
                   persistenceTimers, evictionTimers, db, dbWrites, emptyFor>>
    /\ UNCHANGED <<proc, jobs, restVars>>

\* a socket event reaches a handler only through a registered listener of a live socket
CanEmit(s) == conn[s] = "connected" /\ listening[s]

(* ------------------------------ join ---------------------------------- *)
\* socket.user has id and userName
HasIdentity(s) == token[s] = "valid"

\* handleJoinRoom up to its first await (or to its end when the room is in memory)
JoinAdd(s, r, o, h, act) ==
    LET h2 == [h EXCEPT ![o] = RecordingPush([@ EXCEPT !.participants = Append(@, s)], "user_joined")]
        io2 == [ioRooms EXCEPT ![s] = @ \cup {r}]
    IN  /\ heap' = Collect(h2, act, persistenceTimers, discAwait)
        /\ activeRoomSessions' = act
        /\ ioRooms' = io2
        /\ users' = MapSet(users, s, r)
        /\ emptyFor' = [emptyFor EXCEPT ![r] = 0]
        /\ out' = {Msg("user_joined", IoMembers(r, io2, conn), r, "", Roster(h2[o].participants), ""),
                   Msg("load_code", ToSocket(s, conn), r, CodeOrEmpty(h2[o].code), <<>>, h2[o].language)}

JoinReject(s, text) ==
    /\ out' = {Msg("error", ToSocket(s, conn), NoRoomId, "", <<>>, text)}
    /\ UNCHANGED <<ioRooms, users, emptyFor>>

\* the capacity check off by one: a session of exactly 10 still admits
JoinCheckAndAdd_OffByOne(s, r, o, h, act) ==
    IF Len(h[o].participants) > MAX_PARTICIPANTS
    THEN /\ JoinReject(s, "Room is full")
         /\ heap' = Collect(h, act, persistenceTimers, discAwait)
         /\ activeRoomSessions' = act
    ELSE JoinAdd(s, r, o, h, act)

\* capacity check and push, on session object o
JoinCheckAndAdd(s, r, o, h, act) ==
    IF Len(h[o].participants) >= MAX_PARTICIPANTS
    THEN /\ JoinReject(s, "Room is full")
         /\ heap' = Collect(h, act, persistenceTimers, discAwait)
         /\ activeRoomSessions' = act
    ELSE JoinAdd(s, r, o, h, act)

handleJoinRoom(s, r) ==
    /\ CanEmit(s)
    /\ joinAwait[s] = NoRoomId
    /\ IF r = NoRoomId
       THEN /\ JoinReject(s, "roomId is required")
            /\ UNCHANGED <<heap, activeRoomSessions, joinAwait>>
       ELSE IF ~HasIdentity(s)
       THEN /\ JoinReject(s, "Unauthorized socket (missing user info)")
            /\ UNCHANGED <<heap, activeRoomSessions, joinAwait>>
       ELSE IF r \in DOMAIN activeRoomSessions
       THEN /\ JoinCheckAndAdd(s, r, activeRoomSessions[r], heap, activeRoomSessions)
            /\ UNCHANGED joinAwait
       ELSE /\ joinAwait' = [joinAwait EXCEPT ![s] = r]
            /\ out' = {}
            /\ UNCHANGED <<heap, activeRoomSessions, ioRooms, users, emptyFor>>
    /\ UNCHANGED <<conn, token, listening, discAwait, persistenceTimers,
                   evictionTimers, db, dbWrites>>
    /\ UNCHANGED <<proc, jobs, restVars>>

\* loadRoomSession resolves and handleJoinRoom continues; found = the query returned a row
JoinResume(s, found) ==
    /\ joinAwait[s] # NoRoomId
    /\ ObjIds \ DOMAIN heap # {}
    /\ LET r == joinAwait[s]
           o == FreshObj(heap)
           session == IF found THEN NewSession(db[r].code, db[r].language)
                      ELSE NewSession(WELCOME, "javascript")
       IN  /\ found => r \in DOMAIN db
           /\ JoinCheckAndAdd(s, r, o, MapSet(heap, o, session),
                              MapSet(activeRoomSessions, r, o))
    /\ joinAwait' = [joinAwait EXCEPT ![s] = NoRoomId]
    /\ UNCHANGED <<conn, token, listening, discAwait, persistenceTimers,
                   evictionTimers, db, dbWrites>>
    /\ UNCHANGED <<proc, jobs, restVars>>

(* ------------------------- durable store ------------------------------ *)
\* RoomController.persistRoomCode: the prisma.room.update call it issues
persistRoomCode(r, code, language, waiter) ==
    [roomId |-> r, code |-> code, language |-> language, waiter |-> waiter]

(* ------------------------------ edit ---------------------------------- *)
\* schedulePersistence: clearTimeout of the armed timer, then a new timer
schedulePersistence(timers, r, o) ==
    MapSet(timers, r, [obj |-> o, left |-> DebounceTicks])

\* a live timer of the runtime: the room id and the room object of its closure
Timeout(r, o, left) == [roomId |-> r, obj |-> o, left |-> left]

\* clearTimeout that cancels nothing
clearTimeout_Noop(tos, handle) == tos

\* clearTimeout(handle): the handle's timer, if it is still live, is gone
RECURSIVE clearTimeout(_, _)
clearTimeout(tos, handle) ==
    IF tos = <<>> THEN <<>>
    ELSE IF Head(tos) = handle THEN Tail(tos)
         ELSE <<Head(tos)>> \o clearTimeout(Tail(tos), handle)

\* the live timers after schedulePersistence: the timer the map holds for the
\* room is cleared, the new one is armed
setTimeoutPersist(tos, timers, r, o) ==
    Append(IF r \in DOMAIN timers
           THEN clearTimeout(tos, Timeout(r, timers[r].obj, timers[r].left))
           ELSE tos,
           Timeout(r, o, DebounceTicks))

\* io.to(roomId): the sender included
EditRecipients_All(s, r) == IoMembers(r, ioRooms, conn)

\* socket.to(roomId): the room's sockets except the sender
EditRecipients(s, r) == IoMembers(r, ioRooms, conn) \ {s}

handleCodeUpdate(s, r, c) ==
    /\ CanEmit(s)
    /\ IF r \in DOMAIN activeRoomSessions /\ s \in DOMAIN users
       THEN LET o == activeRoomSessions[r]
                h2 == [heap EXCEPT ![o] = RecordingPushThrottled([@ EXCEPT !.code = c])]
                t2 == schedulePersistence(persistenceTimers, r, o)
            IN  /\ persistenceTimers' = t2
                /\ timeouts' = setTimeoutPersist(timeouts, persistenceTimers, r, o)
                /\ heap' = Collect(h2, activeRoomSessions, t2, discAwait)
                /\ out' = {Msg("code_update", EditRecipients(s, r), r, c, <<>>, "")}
       ELSE /\ out' = {}
            /\ UNCHANGED <<heap, persistenceTimers, timeouts>>
    /\ UNCHANGED <<conn, token, listening, ioRooms, joinAwait, discAwait, users,
                   activeRoomSessions, evictionTimers, db, dbWrites, emptyFor>>
    /\ UNCHANGED <<proc, jobs, cancelCall, trunc, rlKey, rlReq, execAwait, recordingOn, peer, auxVars>>

\* the debounce timer's callback
PersistTimerFire(r) ==
    /\ \E i \in 1..Len(timeouts) :
          /\ timeouts[i].roomId = r
          /\ timeouts[i].left = 0
          /\ LET o == timeouts[i].obj
                 t2 == MapDelete(persistenceTimers, r)
             IN  /\ dbWrites' = Append(dbWrites, persistRoomCode(r, heap[o].code, heap[o].language, NoSocket))
                 /\ persistenceTimers' = t2
                 /\ timeouts' = RemoveAt(timeouts, i)
                 /\ heap' = Collect(heap, activeRoomSessions, t2, discAwait)
    /\ out' = {}
    /\ UNCHANGED <<conn, token, listening, ioRooms, joinAwait, discAwait, users,
                   activeRoomSessions, evictionTimers, db, emptyFor>>
    /\ UNCHANGED <<proc, jobs, cancelCall, trunc, rlKey, rlReq, execAwait, recordingOn, peer, auxVars>>

(* ---------------------------- disconnect ------------------------------ *)
\* the client goes away: socket.io leaves its rooms, then runs handleDisconnect
\* up to its await of persistRoomCode
handleDisconnect(s) ==
    /\ CanEmit(s)
    /\ conn' = [conn EXCEPT ![s] = "disconnected"]
    /\ ioRooms' = [ioRooms EXCEPT ![s] = {}]
    /\ IF s \in DOMAIN users /\ users[s] \in DOMAIN activeRoomSessions
       THEN LET r == users[s]
                o == activeRoomSessions[r]
                h2 == [heap EXCEPT ![o] = RecordingPush(
                                               [@ EXCEPT !.participants = FilterOut(@, s),
                                                         !.cursors = MapDelete(@, s)],
                                               "user_left")]
                da2 == MapSet(discAwait, s, [obj |-> o, roomId |-> r])
            IN  /\ discAwait' = da2
                /\ heap' = Collect(h2, activeRoomSessions, persistenceTimers, da2)
                /\ out' = {Msg("user_left", IoMembers(r, ioRooms', conn'), r, "",
                               Roster(h2[o].participants), "")}
                /\ dbWrites' = Append(dbWrites, persistRoomCode(r, h2[o].code, h2[o].language, s))
                /\ emptyFor' = IF h2[o].participants = <<>> /\ heap[o].participants # <<>>
                               THEN [emptyFor EXCEPT ![r] = 0]
                               ELSE emptyFor
                /\ UNCHANGED users
       ELSE /\ users' = MapDelete(users, s)
            /\ out' = {}
            /\ UNCHANGED <<discAwait, heap, dbWrites, emptyFor>>
    /\ UNCHANGED <<token, listening, joinAwait, activeRoomSessions,
                   persistenceTimers, evictionTimers, db>>
    /\ UNCHANGED <<proc, jobs, restVars>>

\* persistRoomCode without its try/catch: the rejection reaches the awaiting
\* handleDisconnect, which ends there (no cleanup timer, users entry kept)
PersistDone_Rethrow(i, ok) ==
    /\ i \in 1..Len(dbWrites)
    /\ LET w == dbWrites[i]
           s == w.waiter
           failed == ~ok \/ w.roomId \notin DOMAIN db
       IN  /\ db' = IF failed THEN db
                    ELSE [db EXCEPT ![w.roomId] = [code |-> w.code, language |-> w.language]]
           /\ dbWrites' = RemoveAt(dbWrites, i)
           /\ IF s # NoSocket
              THEN LET da2 == MapDelete(discAwait, s)
                       o == discAwait[s].obj
                       r == discAwait[s].roomId
                   IN  /\ discAwait' = da2
                       /\ evictionTimers' =
                            IF ~failed /\ heap[o].participants = <<>>
                            THEN [evictionTimers EXCEPT ![r] = Append(@, GraceTicks)]
                            ELSE evictionTimers
                       /\ users' = IF failed THEN users ELSE MapDelete(users, s)
                       /\ heap' = Collect(heap, activeRoomSessions, persistenceTimers, da2)
              ELSE UNCHANGED <<discAwait, evictionTimers, users, heap>>
    /\ out' = {}
    /\ UNCHANGED <<conn, token, listening, ioRooms, joinAwait,
                   activeRoomSessions, persistenceTimers, emptyFor>>
    /\ UNCHANGED <<proc, jobs, restVars>>

\* prisma.room.update settles (ok = no infrastructure error); persistRoomCode
\* swallows a failure; a handleDisconnect awaiting it continues
PersistDone(i, ok) ==
    /\ i \in 1..Len(dbWrites)
    /\ LET w == dbWrites[i]
           s == w.waiter
       IN  /\ db' = IF ok /\ w.roomId \in DOMAIN db
                    THEN [db EXCEPT ![w.roomId] = [code |-> w.code, language |-> w.language]]
                    ELSE db
           /\ dbWrites' = RemoveAt(dbWrites, i)
           /\ IF s # NoSocket
              THEN LET da2 == MapDelete(discAwait, s)
                       o == discAwait[s].obj
                       r == discAwait[s].roomId
                   IN  /\ discAwait' = da2
                       /\ evictionTimers' =
                            IF heap[o].participants = <<>>
                            THEN [evictionTimers EXCEPT ![r] = Append(@, GraceTicks)]
                            ELSE evictionTimers
                       /\ users' = MapDelete(users, s)
                       /\ heap' = Collect(heap, activeRoomSessions, persistenceTimers, da2)
              ELSE UNCHANGED <<discAwait, evictionTimers, users, heap>>
    /\ out' = {}
    /\ UNCHANGED <<conn, token, listening, ioRooms, joinAwait,
                   activeRoomSessions, persistenceTimers, emptyFor>>
    /\ UNCHANGED <<proc, jobs, restVars>>

\* a cleanup that also deletes the room's record from the store
EvictTimerFire_DeleteRecord(r) ==
    /\ evictionTimers[r] # <<>>
    /\ Head(evictionTimers[r]) = 0
    /\ evictionTimers' = [evictionTimers EXCEPT ![r] = Tail(@)]
    /\ LET evict == r \in DOMAIN activeRoomSessions
                    /\ heap[activeRoomSessions[r]].participants = <<>>
           act2 == IF evict THEN MapDelete(activeRoomSessions, r) ELSE activeRoomSessions
       IN  /\ activeRoomSessions' = act2
           /\ heap' = Collect(heap, act2, persistenceTimers, discAwait)
           /\ db' = IF evict THEN MapDelete(db, r) ELSE db
    /\ emptyFor' = [emptyFor EXCEPT ![r] = 0]
    /\ out' = {}
    /\ UNCHANGED <<conn, token, listening, ioRooms, joinAwait, discAwait, users,
                   persistenceTimers, dbWrites>>
    /\ UNCHANGED <<proc, jobs, restVars>>

\* a cleanup that does not look at the participants
EvictTimerFire_Unchecked(r) ==
    /\ evictionTimers[r] # <<>>
    /\ Head(evictionTimers[r]) = 0
    /\ evictionTimers' = [evictionTimers EXCEPT ![r] = Tail(@)]
    /\ LET act2 == MapDelete(activeRoomSessions, r)
       IN  /\ activeRoomSessions' = act2
           /\ heap' = Collect(heap, act2, persistenceTimers, discAwait)
    /\ emptyFor' = [emptyFor EXCEPT ![r] = 0]
    /\ out' = {}
    /\ UNCHANGED <<conn, token, listening, ioRooms, joinAwait, discAwait, users,
                   persistenceTimers, db, dbWrites>>
    /\ UNCHANGED <<proc, jobs, restVars>>

\* the cleanup timer's callback
EvictTimerFire(r) ==
    /\ evictionTimers[r] # <<>>
    /\ Head(evictionTimers[r]) = 0
    /\ evictionTimers' = [evictionTimers EXCEPT ![r] = Tail(@)]
    /\ LET act2 == IF r \in DOMAIN activeRoomSessions
                      /\ heap[activeRoomSessions[r]].participants = <<>>
                   THEN MapDelete(activeRoomSessions, r)
                   ELSE activeRoomSessions
       IN  /\ activeRoomSessions' = act2
           /\ heap' = Collect(heap, act2, persistenceTimers, discAwait)
    /\ emptyFor' = [emptyFor EXCEPT ![r] = 0]
    /\ out' = {}
    /\ UNCHANGED <<conn, token, listening, ioRooms, joinAwait, discAwait, users,
                   persistenceTimers, db, dbWrites>>
    /\ UNCHANGED <<proc, jobs, restVars>>

(* ------------------- cursor, typing, execute, hint -------------------- *)
\* positions a client can report
Positions == {"L1", "L2"}

\* what the handlers of this section leave alone
handlerFrame == <<conn, token, listening, ioRooms, joinAwait, discAwait, users,
                  activeRoomSessions, persistenceTimers, evictionTimers, db, dbWrites,
                  emptyFor, proc, jobs, cancelCall, trunc, rlKey, rlReq, recordingOn, peer, timeouts, auxVars>>

\* a cursor move that is also taken for an edit: it arms the debounce timer
handleCursorMove_Persisting(s, r, position) ==
    /\ CanEmit(s)
    /\ r \in DOMAIN activeRoomSessions /\ s \in DOMAIN users
    /\ LET o == activeRoomSessions[r]
       IN  /\ heap' = IF s \in SeqRange(heap[o].participants)
                      THEN [heap EXCEPT ![o].cursors = MapSet(@, s, position)]
                      ELSE heap
           /\ persistenceTimers' = schedulePersistence(persistenceTimers, r, o)
           /\ out' = {Msg("cursor_update", EditRecipients(s, r), r, "", <<>>, position)}
    /\ UNCHANGED <<conn, token, listening, ioRooms, joinAwait, discAwait, users,
                   activeRoomSessions, evictionTimers, db, dbWrites,
                   emptyFor, proc, jobs, cancelCall, trunc, rlKey, rlReq, recordingOn, peer, timeouts, auxVars>>
    /\ UNCHANGED execAwait

handleCursorMove(s, r, position) ==
    /\ CanEmit(s)
    /\ IF r \in DOMAIN activeRoomSessions /\ s \in DOMAIN users
       THEN LET o == activeRoomSessions[r]
            IN  /\ heap' = IF s \in SeqRange(heap[o].participants)
                           THEN [heap EXCEPT ![o].cursors = MapSet(@, s, position)]
                           ELSE heap
                /\ out' = {Msg("cursor_update", EditRecipients(s, r), r, "", <<>>, position)}
       ELSE /\ out' = {}
            /\ UNCHANGED heap
    /\ UNCHANGED <<handlerFrame, execAwait>>

\* 'user-typing' (isTyping) and 'user-stopped-typing'
handleTyping(s, r, isTyping) ==
    /\ CanEmit(s)
    /\ out' = IF s \in DOMAIN users /\ r # NoRoomId
              THEN {Msg(IF isTyping THEN "user-typing" ELSE "user-stopped-typing",
                        EditRecipients(s, r), r, "", <<>>, "")}
              ELSE {}
    /\ UNCHANGED <<handlerFrame, execAwait, heap>>

\* handleExecuteCode up to its await of executeWithPiston; valid = validateCodeExecution passes
handleExecuteCode(s, r, valid) ==
    /\ CanEmit(s)
    /\ s \notin DOMAIN execAwait
    /\ IF r \notin DOMAIN activeRoomSessions \/ s \notin DOMAIN users
       THEN /\ out' = {}
            /\ UNCHANGED execAwait
       ELSE IF ~valid
       THEN /\ out' = {Msg("execution_error", ToSocket(s, conn), NoRoomId, "", <<>>, "invalid")}
            /\ UNCHANGED execAwait
       ELSE /\ execAwait' = MapSet(execAwait, s, [obj |-> activeRoomSessions[r], roomId |-> r,
                                                   kind |-> "execute"])
            /\ out' = {}
    /\ UNCHANGED <<handlerFrame, heap>>

\* objects referred to once the suspended handlers are ea
CollectAfter(h, ea) ==
    [o \in (DOMAIN h) \cap
           (Range(activeRoomSessions) \cup {persistenceTimers[r].obj : r \in DOMAIN persistenceTimers}
              \cup {discAwait[s].obj : s \in DOMAIN discAwait}
              \cup {ea[s].obj : s \in DOMAIN ea}) |-> h[o]]

\* executeWithPiston settles; accepted = it returned a result (it throws for code
\* that is too long or a language it does not have)
ExecuteResume(s, accepted) ==
    /\ s \in DOMAIN execAwait
    /\ execAwait[s].kind = "execute"
    /\ LET o == execAwait[s].obj
           r == execAwait[s].roomId
           ea2 == MapDelete(execAwait, s)
       IN  /\ execAwait' = ea2
           /\ IF accepted
              THEN /\ out' = {Msg("execution_result", IoMembers(r, ioRooms, conn), r, "", <<>>, "")}
                   /\ heap' = CollectAfter([heap EXCEPT ![o] = RecordingPush(@, "execution")], ea2)
              ELSE /\ out' = {Msg("execution_error", ToSocket(s, conn), NoRoomId, "", <<>>, "rejected")}
                   /\ heap' = CollectAfter(heap, ea2)
    /\ UNCHANGED handlerFrame

\* handleRequestHint up to its await of aiService.generateHint
handleRequestHint(s, r) ==
    /\ CanEmit(s)
    /\ s \notin DOMAIN execAwait
    /\ IF r \notin DOMAIN activeRoomSessions \/ s \notin DOMAIN users
       THEN /\ out' = {}
            /\ UNCHANGED execAwait
       ELSE /\ execAwait' = MapSet(execAwait, s, [obj |-> activeRoomSessions[r], roomId |-> r,
                                                   kind |-> "hint"])
            /\ out' = {}
    /\ UNCHANGED <<handlerFrame, heap>>

\* generateHint settles with a hint, with the cooldown notice, or it throws
HintResume(s, type) ==
    /\ s \in DOMAIN execAwait
    /\ execAwait[s].kind = "hint"
    /\ LET o == execAwait[s].obj
           ea2 == MapDelete(execAwait, s)
       IN  /\ execAwait' = ea2
           /\ IF type = "error"
              THEN /\ out' = {Msg("error", ToSocket(s, conn), NoRoomId, "", <<>>,
                                  "Failed to generate hint")}
                   /\ heap' = CollectAfter(heap, ea2)
              ELSE /\ out' = {Msg("hint_response", ToSocket(s, conn), NoRoomId, "", <<>>, type)}
                   /\ heap' = CollectAfter(IF type # "cooldown"
                                           THEN [heap EXCEPT ![o] = RecordingPush(@, "hint_request")]
                                           ELSE heap, ea2)
    /\ UNCHANGED handlerFrame

(* ------------------------- hint cooldown ------------------------------ *)
\* CONFIG.AI.HINT_COOLDOWN, in ms
HINT_COOLDOWN == 30000

\* the time one HintTick stands for, in ms
HintTickMs == 15000

\* what the steps of generateHint leave alone
hintFrame == <<conn, token, listening, ioRooms, joinAwait, discAwait, users,
               activeRoomSessions, persistenceTimers, evictionTimers, db, dbWrites,
               emptyFor, proc, jobs, cancelCall, trunc, rlKey, rlReq, recordingOn,
               peer, timeouts, passed, emitted>>

\* generateHint after cache.get(cooldownKey); ok = the cache answered (cache.get
\* returns null when it did not). A key that is still there gives waitTime > 0:
\* the cooldown notice goes to the socket and nothing is recorded
HintCacheGet(s, ok) ==
    /\ s \in DOMAIN execAwait
    /\ execAwait[s].kind = "hint"
    /\ IF ok /\ hintCooldown[UserOf(s)] > 0
       THEN LET ea2 == MapDelete(execAwait, s)
            IN  /\ execAwait' = ea2
                /\ out' = {Msg("hint_response", ToSocket(s, conn), NoRoomId, "", <<>>,
                               "cooldown")}
                /\ heap' = CollectAfter(heap, ea2)
       ELSE /\ execAwait' = [execAwait EXCEPT ![s].kind = "hint_set"]
            /\ out' = {}
            /\ UNCHANGED heap
    /\ UNCHANGED <<hintFrame, hintCooldown>>

\* generateHint after cache.set(cooldownKey, Date.now(), HINT_COOLDOWN / 1000):
\* the key is set when the cache took it, and the providers are asked
HintCacheSet(s, ok) ==
    /\ s \in DOMAIN execAwait
    /\ execAwait[s].kind = "hint_set"
    /\ hintCooldown' = IF ok
                       THEN [hintCooldown EXCEPT ![UserOf(s)] = HINT_COOLDOWN \div HintTickMs]
                       ELSE hintCooldown
    /\ execAwait' = [execAwait EXCEPT ![s].kind = "hint_gen"]
    /\ out' = {}
    /\ UNCHANGED <<hintFrame, heap>>

\* a provider or the templates gave the hint: handleRequestHint sends it and
\* records the request
HintGenerated(s, type) ==
    /\ s \in DOMAIN execAwait
    /\ execAwait[s].kind = "hint_gen"
    /\ LET o == execAwait[s].obj
           ea2 == MapDelete(execAwait, s)
       IN  /\ execAwait' = ea2
           /\ out' = {Msg("hint_response", ToSocket(s, conn), NoRoomId, "", <<>>, type)}
           /\ heap' = CollectAfter([heap EXCEPT ![o] = RecordingPush(@, "hint_request")], ea2)
    /\ UNCHANGED <<hintFrame, hintCooldown>>

\* HintTickMs pass: the cooldown keys run down and are deleted at 0
HintTick ==
    /\ hintCooldown' = [u \in DOMAIN hintCooldown |->
                          IF hintCooldown[u] > 0 THEN hintCooldown[u] - 1 ELSE 0]
    /\ out' = {}
    /\ UNCHANGED <<hintFrame, heap, execAwait>>

(* ------------------------- second instance ---------------------------- *)
\* what the second instance's handlers leave alone: the first instance's memory
\* and the store's records
peerFrame == <<conn, token, listening, ioRooms, joinAwait, discAwait, users,
               activeRoomSessions, heap, persistenceTimers, evictionTimers, db,
               emptyFor, proc, jobs, cancelCall, trunc, rlKey, rlReq, execAwait,
               recordingOn, timeouts, auxVars>>

\* the second instance's client connects with a valid token
PeerHandshake ==
    /\ peer.conn = "new"
    /\ peer' = [peer EXCEPT !.conn = "connected"]
    /\ out' = {}
    /\ UNCHANGED <<peerFrame, dbWrites>>

\* handleJoinRoom on the second instance from its capacity check on, act being
\* its session map
PeerJoinCheckAndAdd(r, act) ==
    IF Len(act[r].participants) >= MAX_PARTICIPANTS
    THEN /\ peer' = [peer EXCEPT !.activeRoomSessions = act, !.joinAwait = NoRoomId]
         /\ out' = {Msg("error", {PeerSocket}, NoRoomId, "", <<>>, "Room is full")}
    ELSE LET session == RecordingPush([act[r] EXCEPT !.participants = Append(@, PeerSocket)], "user_joined")
         IN  /\ peer' = [peer EXCEPT !.activeRoomSessions = MapSet(act, r, session),
                                     !.users = r, !.joinAwait = NoRoomId]
             /\ out' = {Msg("user_joined", LocalMembers(r, ioRooms, conn) \cup {PeerSocket},
                            r, "", Roster(session.participants), ""),
                        Msg("load_code", {PeerSocket}, r, CodeOrEmpty(session.code),
                            <<>>, session.language)}

\* handleJoinRoom on the second instance, up to its await of loadRoomSession
PeerJoin(r) ==
    /\ peer.conn = "connected"
    /\ peer.joinAwait = NoRoomId
    /\ IF r \in DOMAIN peer.activeRoomSessions
       THEN PeerJoinCheckAndAdd(r, peer.activeRoomSessions)
       ELSE /\ peer' = [peer EXCEPT !.joinAwait = r]
            /\ out' = {}
    /\ UNCHANGED <<peerFrame, dbWrites>>

\* loadRoomSession resolves on the second instance and its handleJoinRoom continues
PeerJoinResume(found) ==
    /\ peer.joinAwait # NoRoomId
    /\ LET r == peer.joinAwait
           session == IF found THEN NewSession(db[r].code, db[r].language)
                      ELSE NewSession(WELCOME, "javascript")
       IN  /\ found => r \in DOMAIN db
           /\ PeerJoinCheckAndAdd(r, MapSet(peer.activeRoomSessions, r, session))
    /\ UNCHANGED <<peerFrame, dbWrites>>

\* handleCodeUpdate on the second instance: its own session object takes the
\* text, the broadcast goes to the room's other sockets, its own timer is re-armed
PeerCodeUpdate(r, c) ==
    /\ peer.conn = "connected"
    /\ IF r \in DOMAIN peer.activeRoomSessions /\ peer.users # NoRoomId
       THEN /\ peer' = [peer EXCEPT
                          !.activeRoomSessions[r] = RecordingPushThrottled([@ EXCEPT !.code = c]),
                          !.persistenceTimers = MapSet(@, r, DebounceTicks)]
            /\ out' = {Msg("code_update", LocalMembers(r, ioRooms, conn), r, c, <<>>, "")}
       ELSE /\ out' = {}
            /\ UNCHANGED peer
    /\ UNCHANGED <<peerFrame, dbWrites>>

\* the second instance's debounce timer fires: persistRoomCode on the shared store
PeerTimerFire(r) ==
    /\ r \in DOMAIN peer.persistenceTimers
    /\ peer.persistenceTimers[r] = 0
    /\ LET session == peer.activeRoomSessions[r]
       IN  dbWrites' = Append(dbWrites, persistRoomCode(r, session.code, session.language, NoSocket))
    /\ peer' = [peer EXCEPT !.persistenceTimers = MapDelete(@, r)]
    /\ out' = {}
    /\ UNCHANGED peerFrame

(* ------------------------------ time ---------------------------------- *)
\* a timer that is due runs before the clock moves on
NoTimerDue ==
    /\ \A r \in DOMAIN persistenceTimers : persistenceTimers[r].left > 0
    /\ \A i \in 1..Len(timeouts) : timeouts[i].left > 0
    /\ \A r \in DOMAIN evictionTimers : \A i \in 1..Len(evictionTimers[r]) : evictionTimers[r][i] > 0
    /\ proc.phase = "stopping" => proc.forceLeft > 0
    /\ \A r \in DOMAIN peer.persistenceTimers : peer.persistenceTimers[r] > 0

Tick ==
    /\ NoTimerDue
    /\ persistenceTimers' = [r \in DOMAIN persistenceTimers |->
                               [persistenceTimers[r] EXCEPT !.left = @ - 1]]
    /\ timeouts' = [i \in 1..Len(timeouts) |-> [timeouts[i] EXCEPT !.left = @ - 1]]
    /\ evictionTimers' = [r \in DOMAIN evictionTimers |->
                            [i \in 1..Len(evictionTimers[r]) |-> evictionTimers[r][i] - 1]]
    /\ emptyFor' = [r \in DOMAIN emptyFor |->
                      IF r \in DOMAIN activeRoomSessions
                         /\ heap[activeRoomSessions[r]].participants = <<>>
                         /\ emptyFor[r] < GraceTicks
                      THEN emptyFor[r] + 1
                      ELSE emptyFor[r]]
    /\ proc' = IF proc.phase = "stopping" THEN [proc EXCEPT !.forceLeft = @ - 1] ELSE proc
    /\ out' = {}
    /\ heap' = [o \in DOMAIN heap |->
                  [heap[o] EXCEPT !.recent = NoRecent, !.lastRecordTime =
                      IF @ = NoTime \/ @ * TickMs > RECORD_THROTTLE_MS THEN @ ELSE @ + 1]]
    /\ peer' = [peer EXCEPT
                  !.persistenceTimers = [r \in DOMAIN @ |-> @[r] - 1],
                  !.activeRoomSessions = [r \in DOMAIN @ |->
                      [@[r] EXCEPT !.recent = NoRecent, !.lastRecordTime =
                          IF @ = NoTime \/ @ * TickMs > RECORD_THROTTLE_MS THEN @ ELSE @ + 1]]]
    /\ UNCHANGED <<jobs, cancelCall, trunc, rlKey, rlReq, execAwait, recordingOn, auxVars>>
    /\ UNCHANGED <<conn, token, listening, ioRooms, joinAwait, discAwait, users,
                   activeRoomSessions, db, dbWrites>>

(* ----------------------------- shutdown ------------------------------- *)
\* SIGTERM or SIGINT: httpServer.close stops new connections, the forced exit is armed
gracefulShutdown ==
    /\ proc.phase = "up"
    /\ proc' = [phase |-> "stopping", forceLeft |-> ForceTicks]
    /\ out' = {}
    /\ UNCHANGED <<conn, token, listening, ioRooms, joinAwait, discAwait, users,
                   activeRoomSessions, heap, persistenceTimers, evictionTimers,
                   db, dbWrites, emptyFor, jobs, restVars>>

\* process.exit: from the close callback once no connection is left, or from the
\* forced-exit timer; a store call in flight may or may not have been applied
ProcessExit(applied) ==
    /\ proc.phase = "stopping"
    /\ \/ proc.forceLeft = 0
       \/ \A s \in Sockets : conn[s] # "connected"
    /\ proc' = [proc EXCEPT !.phase = "exited"]
    /\ db' = IF applied /\ dbWrites # <<>> /\ Head(dbWrites).roomId \in DOMAIN db
             THEN [db EXCEPT ![Head(dbWrites).roomId] =
                       [code |-> Head(dbWrites).code, language |-> Head(dbWrites).language]]
             ELSE db
    /\ out' = {}
    /\ UNCHANGED <<conn, token, listening, ioRooms, joinAwait, discAwait, users,
                   activeRoomSessions, heap, persistenceTimers, evictionTimers,
                   dbWrites, emptyFor, jobs, restVars>>

\* the process runs its event loop
Running == proc.phase # "exited"

(* ------------------------- execution jobs ----------------------------- *)
JobIds == 1..MaxJobs

\* the variables of the socket side, which the job pipeline only reads
sessionVars == <<conn, token, listening, ioRooms, joinAwait, discAwait, users,
                 activeRoomSessions, heap, persistenceTimers, evictionTimers,
                 db, dbWrites, emptyFor, proc>>

\* languages a submission can name ("" = none given)
Languages == {"", "python", "py", "php", "klingon"}

\* keys of LANGUAGE_CONFIG of the Piston executor, and its aliases
PISTON_LANGUAGE_CONFIG == {"python", "php"}
PistonAlias(language) == IF language = "py" THEN "python" ELSE NULL

\* pistonExecutor's getLanguageConfig: direct match, then aliases
getLanguageConfig(language) ==
    IF language \in PISTON_LANGUAGE_CONFIG THEN language ELSE PistonAlias(language)

isLanguageSupported(language) == getLanguageConfig(language) # NULL

\* keys of LANGUAGE_CONFIG of the code executor, which the worker runs
EXECUTOR_LANGUAGE_CONFIG == {"python"}

\* what a submitted program does when run
Behaviours == {"exit0", "exit1", "hang"}

\* submitted code: its length and what it does (length 0 = no code given)
Codes ==
    {[size |-> 0, run |-> "exit0"], [size |-> MAX_CODE_LENGTH + 1, run |-> "exit0"]}
    \cup {[size |-> 1024, run |-> b] : b \in Behaviours}

NoResult == [success |-> FALSE, output |-> "", error |-> "", language |-> ""]

RECURSIVE Pow2(_)
Pow2(n) == IF n = 0 THEN 1 ELSE 2 * Pow2(n - 1)

\* an HTTP response of the execution routes
Http(status) == Msg("http_response", {}, NoRoomId, "", <<>>, status)

\* io.to(job.data.roomId).emit(event, { jobId, ... })
JobMsg(ev, j, r, stdout, stderr) ==
    [ev |-> ev, to |-> IoMembers(r, ioRooms, conn), room |-> r, code |-> stdout,
     roster |-> <<>>, text |-> stderr, jobId |-> j]

\* an emit to every connected socket instead of the job's room
JobEmit_Broadcast(ev, j, r, stdout, stderr) ==
    IF r # NoRoomId
    THEN {[ev |-> ev, to |-> {s \in Sockets : conn[s] = "connected"}, room |-> r,
           code |-> stdout, roster |-> <<>>, text |-> stderr, jobId |-> j]}
    ELSE {}

\* if (job.data.roomId && io) io.to(...).emit(...)
JobEmit(ev, j, r, stdout, stderr) ==
    IF r # NoRoomId THEN {JobMsg(ev, j, r, stdout, stderr)} ELSE {}

\* executionQueue.add('execute', data, opts) with the queue's defaultJobOptions
addExecutionJob(code, language, roomId) ==
    [state |-> "waiting", code |-> code, language |-> language, roomId |-> roomId,
     timeout |-> DEFAULT_TIMEOUT_MS,
     attempts |-> DEFAULT_ATTEMPTS, backoff |-> BACKOFF_DELAY_MS,
     attemptsMade |-> 0, phase |-> "", delay |-> 0,
     returnvalue |-> NoResult, failedReason |-> ""]

\* POST /api/execute/async; queued = executionQueue.add did not reject
SubmitAsync(code, language, roomId, queued) ==
    /\ IF code.size = 0 \/ language = ""
       THEN /\ out' = {Http("400 Code and language are required")}
            /\ UNCHANGED jobs
       ELSE IF ~isLanguageSupported(language)
       THEN /\ out' = {Http("400 Language is not supported")}
            /\ UNCHANGED jobs
       ELSE IF ~queued
       THEN /\ out' = {Http("500 Failed to queue execution")}
            /\ UNCHANGED jobs
       ELSE /\ jobs' = Append(jobs, addExecutionJob(code, language, roomId))
            /\ out' = {Http("202 Code execution queued")}
    /\ UNCHANGED <<sessionVars, restVars>>

\* the worker takes a waiting job: it becomes active and the processor starts
JobTake(j) ==
    /\ j \in 1..Len(jobs)
    /\ jobs[j].state = "waiting"
    /\ jobs' = [jobs EXCEPT ![j].state = "active", ![j].phase = "start",
                            ![j].attemptsMade = @ + 1]
    /\ out' = {}
    /\ UNCHANGED <<sessionVars, restVars>>

\* a failed attempt that is always retried: the count of attempts starts over
AfterThrow_AlwaysRetry(job, message) ==
    [job EXCEPT !.state = "delayed", !.phase = "", !.attemptsMade = 0,
                !.delay = job.backoff]

\* the processor threw: BullMQ retries after the backoff while attempts remain
AfterThrow(job, message) ==
    IF job.attemptsMade < job.attempts
    THEN [job EXCEPT !.state = "delayed", !.phase = "",
                     !.delay = job.backoff * Pow2(job.attemptsMade - 1)]
    ELSE [job EXCEPT !.state = "failed", !.phase = "", !.failedReason = message]

\* the processor's catch: execution_error to the room, then rethrow
Throw(j, message) ==
    /\ out' = JobEmit("execution_error", j, jobs[j].roomId, "", message)
    /\ jobs' = [jobs EXCEPT ![j] = AfterThrow(jobs[j], message)]

\* execution_result and execution_error end a job's run for its room
TerminalEvents == {"execution_result", "execution_error"}

\* what the job pipeline leaves alone besides the socket side
jobFrame == <<cancelCall, trunc, rlKey, rlReq, execAwait, recordingOn, peer,
              timeouts, passed, hintCooldown>>

\* the count of terminal events of job j after a step of its processor
\* (it stops counting at DEFAULT_ATTEMPTS + 1)
Emitted(j) ==
    LET n == Cardinality({m \in out' : m.ev \in TerminalEvents /\ m.jobId = j})
    IN  [emitted EXCEPT ![j] = IF @ + n > DEFAULT_ATTEMPTS + 1
                               THEN DEFAULT_ATTEMPTS + 1 ELSE @ + n]

\* executeCode up to the spawn; fault = mkdir, writeFile or updateProgress rejects
ExecStart(j, fault) ==
    /\ j \in 1..Len(jobs)
    /\ jobs[j].state = "active" /\ jobs[j].phase = "start"
    /\ IF jobs[j].language \notin EXECUTOR_LANGUAGE_CONFIG
       THEN Throw(j, "Unsupported language")
       ELSE IF fault
       THEN Throw(j, "infrastructure fault")
       ELSE /\ jobs' = [jobs EXCEPT ![j].phase = "running"]
            /\ out' = {}
    /\ emitted' = Emitted(j)
    /\ UNCHANGED <<sessionVars, jobFrame>>

\* executeLocally's timeout handler: the run has lasted job.data.timeout
RunTimeout(j) ==
    /\ j \in 1..Len(jobs)
    /\ jobs[j].state = "active" /\ jobs[j].phase = "running"
    /\ jobs[j].code.run = "hang"
    /\ jobs' = [jobs EXCEPT ![j].phase = "killed"]
    /\ out' = {}
    /\ UNCHANGED <<sessionVars, restVars>>

\* what executeLocally resolves with at 'close'
executeLocally(run, killed) ==
    IF killed THEN [stdout |-> "", stderr |-> "Execution timed out", exitCode |-> 137]
    ELSE IF run = "exit1" THEN [stdout |-> "", stderr |-> "err", exitCode |-> 1]
    ELSE [stdout |-> "ok", stderr |-> "", exitCode |-> 0]

\* the result executeCode returns: success reads result.error
executeCode(result, language) ==
    [success |-> ("error" \notin DOMAIN result) \/ result.error = "",
     output |-> result.stdout, error |-> result.stderr, language |-> language]

\* the child process closes, executeCode returns and the processor finishes;
\* fault = updateProgress(100) rejects
RunClose(j, fault) ==
    /\ j \in 1..Len(jobs)
    /\ jobs[j].state = "active"
    /\ \/ jobs[j].phase = "running" /\ jobs[j].code.run # "hang"
       \/ jobs[j].phase = "killed"
    /\ IF fault
       THEN Throw(j, "infrastructure fault")
       ELSE LET result == executeCode(executeLocally(jobs[j].code.run, jobs[j].phase = "killed"),
                                      jobs[j].language)
            IN  /\ out' = JobEmit("execution_result", j, jobs[j].roomId,
                                  result.output, result.error)
                /\ jobs' = [jobs EXCEPT ![j].state = "completed", ![j].phase = "",
                                        ![j].returnvalue = result]
    /\ emitted' = Emitted(j)
    /\ UNCHANGED <<sessionVars, jobFrame>>

\* a requeue that also picks up jobs that have failed for good
BackoffElapsed_RequeueFailed(j) ==
    /\ j \in 1..Len(jobs)
    /\ jobs[j].state \in {"delayed", "failed"}
    /\ jobs' = [jobs EXCEPT ![j].state = "waiting", ![j].delay = 0]
    /\ out' = {}
    /\ UNCHANGED <<sessionVars, restVars>>

\* the backoff delay of a retried job has passed
BackoffElapsed(j) ==
    /\ j \in 1..Len(jobs)
    /\ jobs[j].state = "delayed"
    /\ jobs' = [jobs EXCEPT ![j].state = "waiting", ![j].delay = 0]
    /\ out' = {}
    /\ UNCHANGED <<sessionVars, restVars>>

(* ---------------------------- cancelJob ------------------------------- *)
\* the job's hash is in the queue (executionQueue.getJob finds it)
JobExists(j) == j \in 1..Len(jobs) /\ jobs[j].state # "removed"

\* the worker holds the lock of a job from taking it until it has settled it
JobLocked(j) == jobs[j].state = "active"

\* cancelJob is called and its executionQueue.getJob is answered
cancelJob(j) ==
    /\ cancelCall.pc = "idle"
    /\ cancelCall' = IF JobExists(j)
                     THEN [pc |-> "getState", jobId |-> j, ret |-> ""]
                     ELSE [pc |-> "idle", jobId |-> j, ret |-> "false"]
    /\ UNCHANGED <<jobs, sessionVars, trunc, rlKey, rlReq, execAwait, recordingOn, peer, timeouts, auxVars, out>>

\* job.getState() is answered and cancelJob decides: it calls job.remove() for a
\* job it saw waiting or delayed, and returns false for any other
CancelGetState ==
    /\ cancelCall.pc = "getState"
    /\ cancelCall' = IF JobExists(cancelCall.jobId)
                        /\ jobs[cancelCall.jobId].state \in {"waiting", "delayed"}
                     THEN [cancelCall EXCEPT !.pc = "remove"]
                     ELSE [cancelCall EXCEPT !.pc = "idle", !.ret = "false"]
    /\ UNCHANGED <<jobs, sessionVars, trunc, rlKey, rlReq, execAwait, recordingOn, peer, timeouts, auxVars, out>>

\* job.remove() runs in the queue: it deletes the job whatever list it is in,
\* unless the job is locked, and then it throws; cancelJob returns true or rejects
CancelRemove ==
    /\ cancelCall.pc = "remove"
    /\ LET j == cancelCall.jobId
       IN  IF JobExists(j) /\ ~JobLocked(j)
           THEN /\ jobs' = [jobs EXCEPT ![j].state = "removed", ![j].phase = ""]
                /\ cancelCall' = [cancelCall EXCEPT !.pc = "idle", !.ret = "true"]
           ELSE /\ jobs' = jobs
                /\ cancelCall' = [cancelCall EXCEPT !.pc = "idle", !.ret = "throws"]
    /\ UNCHANGED <<sessionVars, trunc, rlKey, rlReq, execAwait, recordingOn, peer, timeouts, auxVars, out>>

(* -------------------------- truncateOutput ---------------------------- *)
\* LIMITS.maxOutput: 1024 * 100 characters
MAX_OUTPUT == 102400

\* A string is held as its runs of equal characters, <<[c |-> "x", n |-> 3], ...>>:
\* no run is empty and neighbouring runs differ, so equal strings are equal values.
RECURSIVE StrLen(_)
StrLen(s) == IF s = <<>> THEN 0 ELSE Head(s).n + StrLen(Tail(s))

Repeat(c, n) == IF n = 0 THEN <<>> ELSE <<[c |-> c, n |-> n]>>

\* s + t
Concat(s, t) ==
    IF s = <<>> THEN t
    ELSE IF t = <<>> THEN s
    ELSE IF s[Len(s)].c = t[1].c
         THEN SubSeq(s, 1, Len(s) - 1) \o <<[c |-> t[1].c, n |-> s[Len(s)].n + t[1].n]>> \o Tail(t)
         ELSE s \o t

\* s.substring(0, k)
RECURSIVE Substring0(_, _)
Substring0(s, k) ==
    IF s = <<>> \/ k <= 0 THEN <<>>
    ELSE IF Head(s).n >= k THEN <<[c |-> Head(s).c, n |-> k]>>
    ELSE <<Head(s)>> \o Substring0(Tail(s), k - Head(s).n)

\* s.substring(k)
RECURSIVE SubstringFrom(_, _)
SubstringFrom(s, k) ==
    IF s = <<>> THEN <<>>
    ELSE IF k <= 0 THEN s
    ELSE IF Head(s).n > k THEN <<[c |-> Head(s).c, n |-> Head(s).n - k]>> \o Tail(s)
    ELSE SubstringFrom(Tail(s), k - Head(s).n)

\* the string of a sequence of characters
RECURSIVE Str(_)
Str(q) == IF q = <<>> THEN <<>> ELSE Concat(Repeat(Head(q), 1), Str(Tail(q)))

\* '\n[Output truncated]' of the queue executor
QUEUE_MARKER ==
    Str(<<"\n", "[", "O", "u", "t", "p", "u", "t", " ",
          "t", "r", "u", "n", "c", "a", "t", "e", "d", "]">>)

\* '\n[Output truncated - exceeded 100KB limit]' of the Piston executor
PISTON_MARKER ==
    Str(<<"\n", "[", "O", "u", "t", "p", "u", "t", " ",
          "t", "r", "u", "n", "c", "a", "t", "e", "d", " ", "-", " ",
          "e", "x", "c", "e", "e", "d", "e", "d", " ",
          "1", "0", "0", "K", "B", " ", "l", "i", "m", "i", "t", "]">>)

MarkerOf(fn) == IF fn = "piston" THEN PISTON_MARKER ELSE QUEUE_MARKER

\* a truncation that also cuts an output of exactly the limit
truncateOutput_AtLimit(output, marker) ==
    IF output = NoString \/ output = <<>> THEN <<>>
    ELSE IF StrLen(output) >= MAX_OUTPUT
         THEN Concat(Substring0(output, MAX_OUTPUT), marker)
         ELSE output

\* truncateOutput of either executor: they differ in the marker only
truncateOutput(output, marker) ==
    IF output = NoString \/ output = <<>> THEN <<>>
    ELSE IF StrLen(output) > MAX_OUTPUT
         THEN Concat(Substring0(output, MAX_OUTPUT), marker)
         ELSE output

\* lengths of the pieces the outputs are made of
PieceLengths == {0, 1, MAX_OUTPUT - 1, MAX_OUTPUT, MAX_OUTPUT + 1, 200000}

\* outputs of a program: x's then y's, an output that ends with a marker already,
\* and no output at all
Outputs ==
    {Concat(Repeat("x", a), Repeat("y", b)) : a, b \in PieceLengths}
    \cup {Concat(Repeat("x", a), m) : a \in PieceLengths, m \in {QUEUE_MARKER, PISTON_MARKER}}
    \cup {NoString}

\* an executor has an output to report
InitTrunc ==
    /\ InitService
    /\ recordingOn = FALSE
    /\ \E fn \in {"piston", "queue"}, output \in Outputs :
          trunc = [fn |-> fn, input |-> output, once |-> NoString, twice |-> NoString]

\* executeLocally's 'data' handler or executeWithPiston truncates the output
TruncateOnce ==
    /\ trunc.fn # ""
    /\ trunc.once = NoString
    /\ trunc' = [trunc EXCEPT !.once = truncateOutput(trunc.input, MarkerOf(trunc.fn))]
    /\ UNCHANGED <<sessionVars, jobs, cancelCall, rlKey, rlReq, execAwait, recordingOn, peer, timeouts, auxVars, out>>

\* the truncated output passes through truncateOutput again (executeCode's result)
TruncateAgain ==
    /\ trunc.once # NoString
    /\ trunc.twice = NoString
    /\ trunc' = [trunc EXCEPT !.twice = truncateOutput(trunc.once, MarkerOf(trunc.fn))]
    /\ UNCHANGED <<sessionVars, jobs, cancelCall, rlKey, rlReq, execAwait, recordingOn, peer, timeouts, auxVars, out>>

(* --------------------------- rate limiter ----------------------------- *)
\* res.status(429).json({ ..., retryAfter: windowSeconds }), with the headers set before
TooManyRequests(currentCount, limit, windowSeconds) ==
    [ev |-> "http_response", to |-> {}, room |-> NoRoomId, code |-> "", roster |-> <<>>,
     text |-> "429 Too many requests", retryAfter |-> windowSeconds,
     remaining |-> IF limit - currentCount > 0 THEN limit - currentCount ELSE 0]

\* next(): the request goes on to its route
PassOn == [ev |-> "next", to |-> {}, room |-> NoRoomId, code |-> "", roster |-> <<>>, text |-> ""]

\* a limiter that turns the request away when the cache gave no count
LimiterDecide_FailClosed(currentCount, limit, windowSeconds) ==
    IF currentCount > limit \/ currentCount = 0
    THEN {TooManyRequests(currentCount, limit, windowSeconds)}
    ELSE {PassOn}

\* the middleware after cache.incr has returned currentCount
LimiterDecide(currentCount, limit, windowSeconds) ==
    IF currentCount > limit
    THEN {TooManyRequests(currentCount, limit, windowSeconds)}
    ELSE {PassOn}

\* what cache.incr returns from its catch
CACHE_INCR_FAILED == 0

\* the request reaches the middleware and client.incr is answered (ok) or fails;
\* a count of 1 leaves cache.incr waiting for client.expire
RateLimitIncr(q, ok) ==
    /\ rlReq[q] = "idle"
    /\ IF ~ok
       THEN /\ out' = LimiterDecide(CACHE_INCR_FAILED, EXECUTION_LIMIT, EXECUTION_WINDOW_S)
            /\ UNCHANGED <<rlKey, rlReq>>
       ELSE /\ rlKey' = [rlKey EXCEPT !.count = @ + 1]
            /\ IF rlKey.count + 1 = 1
               THEN /\ rlReq' = [rlReq EXCEPT ![q] = "expire"]
                    /\ out' = {}
               ELSE /\ out' = LimiterDecide(rlKey.count + 1, EXECUTION_LIMIT, EXECUTION_WINDOW_S)
                    /\ UNCHANGED rlReq
    /\ UNCHANGED limiterFrame

\* client.expire is answered (ok) or fails, and the middleware decides
RateLimitExpire(q, ok) ==
    /\ rlReq[q] = "expire"
    /\ rlReq' = [rlReq EXCEPT ![q] = "idle"]
    /\ IF ok
       THEN /\ rlKey' = IF rlKey.count > 0
                        THEN [rlKey EXCEPT !.ttl = EXECUTION_WINDOW_S]
                        ELSE rlKey
            /\ out' = LimiterDecide(1, EXECUTION_LIMIT, EXECUTION_WINDOW_S)
       ELSE /\ rlKey' = rlKey
            /\ out' = LimiterDecide(CACHE_INCR_FAILED, EXECUTION_LIMIT, EXECUTION_WINDOW_S)
    /\ UNCHANGED limiterFrame

\* the key's time to live has passed: the cache deletes the key
KeyExpires ==
    /\ rlKey.ttl > 0
    /\ rlKey' = [count |-> 0, ttl |-> 0]
    /\ out' = {}
    /\ UNCHANGED <<rlReq, limiterFrame>>

\* the log of passed requests after a limiter step: next() calls count in the current slot
Logged == [passed EXCEPT ![1] = @ + Cardinality({m \in out' : m = PassOn})]

\* LimiterTickS seconds pass: the key's time to live runs down and the cache
\* deletes the key when it is over; the log moves on by one slot
LimiterTick ==
    /\ rlKey' = IF rlKey.ttl = 0 THEN rlKey
                ELSE IF rlKey.ttl - LimiterTickS <= 0 THEN [count |-> 0, ttl |-> 0]
                ELSE [rlKey EXCEPT !.ttl = @ - LimiterTickS]
    /\ passed' = [i \in 1..WindowSlots |-> IF i = 1 THEN 0 ELSE passed[i - 1]]
    /\ out' = {}
    /\ UNCHANGED <<rlReq, limiterFrame>>

(* --------------------------- specification ---------------------------- *)
\* participant entries in memory plus joins still loading
TotalEntries ==
    Cardinality({s \in Sockets : joinAwait[s] # NoRoomId})
    + Cardinality({<<o, i>> \in ObjIds \X (1..MAX_PARTICIPANTS) :
                     o \in DOMAIN heap /\ i <= Len(heap[o].participants)})

Next ==
    \/ \E s \in Sockets, t \in Tokens : Handshake(s, t)
    \/ \E s \in Sockets, r \in RoomIds \cup {NoRoomId} :
          TotalEntries < MaxEntries /\ handleJoinRoom(s, r)
    \/ \E s \in Sockets, found \in BOOLEAN : JoinResume(s, found)
    \/ \E s \in Sockets, r \in RoomIds \cup {NoRoomId}, c \in Texts : handleCodeUpdate(s, r, c)
    \/ \E s \in Sockets :
          Len(dbWrites) < MaxInFlight /\ handleDisconnect(s)
    \/ \E r \in RoomIds : Len(dbWrites) < MaxInFlight /\ PersistTimerFire(r)
    \/ \E i \in 1..MaxInFlight, ok \in BOOLEAN : PersistDone(i, ok)
    \/ \E r \in RoomIds : EvictTimerFire(r)
    \/ Tick

Spec == Init /\ [][Next]_vars

\* the same handlers with nothing limiting how often a socket joins, so that a
\* session fills up; the clock stands still (everything happens within one tick)
NextCap ==
    \/ \E s \in Sockets : Handshake(s, "valid")
    \/ \E s \in Sockets, r \in RoomIds : handleJoinRoom(s, r)
    \/ \E s \in Sockets, found \in BOOLEAN : JoinResume(s, found)
    \/ \E s \in Sockets : Len(dbWrites) < MaxInFlight /\ handleDisconnect(s)
    \/ \E i \in 1..MaxInFlight, ok \in BOOLEAN : PersistDone(i, ok)

SpecCap == Init /\ [][NextCap]_vars

\* the service with its shutdown: one client connection, signal and exit included
NextDown ==
    \/ proc.phase = "up" /\ Handshake(1, "valid")
    \/ \E r \in RoomIds : Running /\ TotalEntries < MaxEntries /\ handleJoinRoom(1, r)
    \/ \E found \in BOOLEAN : Running /\ JoinResume(1, found)
    \/ \E r \in RoomIds, c \in Texts : Running /\ handleCodeUpdate(1, r, c)
    \/ Running /\ Len(dbWrites) < MaxInFlight /\ handleDisconnect(1)
    \/ \E r \in RoomIds : Running /\ Len(dbWrites) < MaxInFlight /\ PersistTimerFire(r)
    \/ \E i \in 1..MaxInFlight, ok \in BOOLEAN : Running /\ PersistDone(i, ok)
    \/ \E r \in RoomIds : Running /\ EvictTimerFire(r)
    \/ Running /\ Tick
    \/ gracefulShutdown
    \/ \E applied \in BOOLEAN : ProcessExit(applied)

SpecDown == Init /\ [][NextDown]_vars

\* recording entries over all session objects
Recorded ==
    LET RECURSIVE Sum(_)
        Sum(S) == IF S = {} THEN 0
                  ELSE LET o == CHOOSE x \in S : TRUE IN heap[o].recording + Sum(S \ {o})
    IN  Sum(DOMAIN heap)

\* two sockets in a session: edits, cursor moves and typing, the timers and the store
NextCursor ==
    \/ \E s \in Sockets : Handshake(s, "valid")
    \/ \E s \in Sockets, r \in RoomIds :
          TotalEntries < MaxEntries /\ Recorded < MaxRecorded /\ handleJoinRoom(s, r)
    \/ \E s \in Sockets : Recorded < MaxRecorded /\ JoinResume(s, TRUE)
    \/ \E s \in Sockets, r \in RoomIds :
          Recorded < MaxRecorded /\ handleCodeUpdate(s, r, "a")
    \/ \E s \in Sockets, r \in RoomIds \cup {NoRoomId}, position \in Positions :
          handleCursorMove(s, r, position)
    \/ \E s \in Sockets, r \in RoomIds \cup {NoRoomId}, isTyping \in BOOLEAN :
          handleTyping(s, r, isTyping)
    \/ \E r \in RoomIds : Len(dbWrites) < MaxInFlight /\ PersistTimerFire(r)
    \/ \E i \in 1..MaxInFlight : PersistDone(i, TRUE)
    \/ Tick

SpecCursor == InitRecording /\ [][NextCursor]_vars

\* one socket in a session whose recording grows: joins, executions, hints, its leaving
NextRecording ==
    \/ Handshake(1, "valid")
    \/ \E r \in RoomIds : TotalEntries < 1 /\ handleJoinRoom(1, r)
    \/ JoinResume(1, TRUE)
    \/ \E r \in RoomIds, valid \in BOOLEAN :
          Recorded <= RECORDING_LIMIT /\ handleExecuteCode(1, r, valid)
    \/ \E accepted \in BOOLEAN : ExecuteResume(1, accepted)
    \/ \E r \in RoomIds : Recorded <= RECORDING_LIMIT /\ handleRequestHint(1, r)
    \/ \E type \in {"hint", "cooldown", "error"} : HintResume(1, type)
    \/ Len(dbWrites) < MaxInFlight /\ handleDisconnect(1)
    \/ \E i \in 1..MaxInFlight : PersistDone(i, TRUE)

SpecRecording == InitRecording /\ [][NextRecording]_vars

\* two instances on one store: a client on each joins the session and edits it
NextPeers ==
    \/ Handshake(1, "valid")
    \/ PeerHandshake
    \/ \E r \in RoomIds : TotalEntries < MaxEntries /\ handleJoinRoom(1, r)
    \/ JoinResume(1, TRUE)
    \/ \E r \in RoomIds :
          /\ r \in DOMAIN peer.activeRoomSessions
                => Len(peer.activeRoomSessions[r].participants) < MaxEntries
          /\ PeerJoin(r)
    \/ PeerJoinResume(TRUE)
    \/ \E r \in RoomIds : handleCodeUpdate(1, r, "a")
    \/ \E r \in RoomIds : PeerCodeUpdate(r, "b")
    \/ \E r \in RoomIds : Len(dbWrites) < MaxInFlight /\ PersistTimerFire(r)
    \/ \E r \in RoomIds : Len(dbWrites) < MaxInFlight /\ PeerTimerFire(r)
    \/ \E i \in 1..MaxInFlight : PersistDone(i, TRUE)
    \/ Tick

SpecPeers == Init /\ [][NextPeers]_vars

\* one socket in a session with the clock running: what it does is recorded
NextThrottle ==
    \/ Handshake(1, "valid")
    \/ \E r \in RoomIds :
          TotalEntries < MaxEntries /\ Recorded < MaxRecorded /\ handleJoinRoom(1, r)
    \/ Recorded < MaxRecorded /\ JoinResume(1, TRUE)
    \/ \E r \in RoomIds : Recorded < MaxRecorded /\ handleCodeUpdate(1, r, "a")
    \/ \E r \in RoomIds : Recorded < MaxRecorded /\ handleExecuteCode(1, r, TRUE)
    \/ ExecuteResume(1, TRUE)
    \/ \E r \in RoomIds : Recorded < MaxRecorded /\ handleRequestHint(1, r)
    \/ \E type \in {"hint", "cooldown"} : HintResume(1, type)
    \/ \E r \in RoomIds : Len(dbWrites) < MaxInFlight /\ PersistTimerFire(r)
    \/ \E i \in 1..MaxInFlight : PersistDone(i, TRUE)
    \/ Tick

SpecThrottle == InitRecording /\ [][NextThrottle]_vars

\* two sockets of one user in a room, asking for hints
NextHints ==
    \/ \E s \in Sockets : Handshake(s, "valid")
    \/ \E s \in Sockets, r \in RoomIds :
          TotalEntries < MaxEntries /\ Recorded < MaxRecorded /\ handleJoinRoom(s, r)
    \/ \E s \in Sockets : Recorded < MaxRecorded /\ JoinResume(s, TRUE)
    \/ \E s \in Sockets, r \in RoomIds : Recorded < MaxRecorded /\ handleRequestHint(s, r)
    \/ \E s \in Sockets : HintCacheGet(s, TRUE)
    \/ \E s \in Sockets : HintCacheSet(s, TRUE)
    \/ \E s \in Sockets, type \in {"ai", "general"} : HintGenerated(s, type)
    \/ HintTick

SpecHints == InitRecording /\ [][NextHints]_vars

\* one socket edits a session while the store is slow: writes overlap and settle
\* in any order
NextWrites ==
    \/ Handshake(1, "valid")
    \/ \E r \in RoomIds : TotalEntries < 1 /\ handleJoinRoom(1, r)
    \/ JoinResume(1, TRUE)
    \/ \E r \in RoomIds, c \in {"a", "b"} : handleCodeUpdate(1, r, c)
    \/ Len(dbWrites) < MaxWrites /\ handleDisconnect(1)
    \/ \E r \in RoomIds : Len(dbWrites) < MaxWrites /\ PersistTimerFire(r)
    \/ \E i \in 1..MaxWrites : PersistDone(i, TRUE)
    \/ Tick

SpecWrites == Init /\ [][NextWrites]_vars

\* two sessions: each socket joins one of them and sends edits under either id
NextTwoRooms ==
    \/ \E s \in Sockets : Handshake(s, "valid")
    \/ \E s \in Sockets, r \in TwoRoomIds :
          TotalEntries < MaxEntries /\ handleJoinRoom(s, r)
    \/ \E s \in Sockets, found \in BOOLEAN : JoinResume(s, found)
    \/ \E s \in Sockets, r \in TwoRoomIds : handleCodeUpdate(s, r, "a")
    \/ \E r \in TwoRoomIds : Len(dbWrites) < MaxInFlight /\ PersistTimerFire(r)
    \/ \E i \in 1..MaxInFlight : PersistDone(i, TRUE)
    \/ Tick

SpecTwoRooms == InitTwoRooms /\ [][NextTwoRooms]_vars

\* the job pipeline, with sockets joining the room the results go to
NextJobs ==
    \/ \E s \in Sockets : Handshake(s, "valid")
    \/ \E s \in Sockets, r \in RoomIds : TotalEntries < MaxEntries /\ handleJoinRoom(s, r)
    \/ \E s \in Sockets : JoinResume(s, TRUE)
    \/ \E code \in Codes, language \in Languages, r \in RoomIds \cup {NoRoomId},
          queued \in BOOLEAN :
          Len(jobs) < MaxJobs /\ SubmitAsync(code, language, r, queued)
    \/ \E j \in JobIds : JobTake(j)
    \/ \E j \in JobIds, fault \in BOOLEAN : ExecStart(j, fault)
    \/ \E j \in JobIds : RunTimeout(j)
    \/ \E j \in JobIds, fault \in BOOLEAN : RunClose(j, fault)
    \/ \E j \in JobIds : BackoffElapsed(j)

SpecJobs == Init /\ [][NextJobs]_vars

\* the queue with its worker and a caller of cancelJob
NextCancel ==
    \/ \E code \in Codes, language \in Languages, queued \in BOOLEAN :
          Len(jobs) < MaxJobs /\ SubmitAsync(code, language, NoRoomId, queued)
    \/ \E j \in JobIds : JobTake(j)
    \/ \E j \in JobIds, fault \in BOOLEAN : ExecStart(j, fault)
    \/ \E j \in JobIds : RunTimeout(j)
    \/ \E j \in JobIds, fault \in BOOLEAN : RunClose(j, fault)
    \/ \E j \in JobIds : BackoffElapsed(j)
    \/ \E j \in JobIds : cancelJob(j)
    \/ CancelGetState
    \/ CancelRemove

SpecCancel == Init /\ [][NextCancel]_vars

\* an output passing through truncateOutput
NextTrunc == TruncateOnce \/ TruncateAgain

SpecTrunc == InitTrunc /\ [][NextTrunc]_vars

\* requests of one client passing the execution limiter, with a cache that can fail
NextLimiter ==
    \/ \E q \in Requests, ok \in BOOLEAN :
          rlKey.count < EXECUTION_LIMIT + MaxOverLimit /\ RateLimitIncr(q, ok)
                                                      /\ UNCHANGED passed
    \/ \E q \in Requests, ok \in BOOLEAN : RateLimitExpire(q, ok) /\ UNCHANGED passed
    \/ KeyExpires /\ UNCHANGED passed

SpecLimiter == Init /\ [][NextLimiter]_vars

\* the limiter with a clock and a cache that answers: the requests it passes on
\* are logged per time slot
NextWindow ==
    \/ \E q \in Requests :
          rlKey.count < EXECUTION_LIMIT + MaxOverLimit /\ RateLimitIncr(q, TRUE)
                                                      /\ passed' = Logged
    \/ \E q \in Requests : RateLimitExpire(q, TRUE) /\ passed' = Logged
    \/ LimiterTick

SpecWindow == Init /\ [][NextWindow]_vars

\* a running worker: a job that can be taken is taken, a started attempt goes on,
\* a child process ends or is killed, a backoff delay passes
WorkerFairness ==
    \A j \in JobIds :
        /\ WF_vars(JobTake(j))
        /\ WF_vars(\E fault \in BOOLEAN : ExecStart(j, fault))
        /\ WF_vars(RunTimeout(j))
        /\ WF_vars(\E fault \in BOOLEAN : RunClose(j, fault))
        /\ WF_vars(BackoffElapsed(j))

SpecJobsFair == Init /\ [][NextJobs]_vars /\ WorkerFairness

(* ------------------------------ claims -------------------------------- *)
RoomFull(s) == Msg("error", ToSocket(s, conn), NoRoomId, "", <<>>, "Room is full")

Joiners(r) == {s \in DOMAIN users : users[s] = r /\ conn[s] = "connected"}

\* C2: join_room events for one session id that race through loadRoomSession end
\* in a single session: every connected joiner of room r is a participant of the
\* one object that activeRoomSessions holds for r.
C2_SingleInstance ==
    \A r \in DOMAIN activeRoomSessions :
        \A s \in Joiners(r) : s \in SeqRange(heap[activeRoomSessions[r]].participants)

\* the step is the timer write of room r's debounce timer
TimerWrite(r, code, language) ==
    dbWrites' = Append(dbWrites, persistRoomCode(r, code, language, NoSocket))

\* C3: every applied code_update restarts the session's one debounce window, so a
\* burst of edits less than 5 s apart yields one write; that write is issued when
\* the timer fires and carries the document the session has in memory at firing.
C3_DebouncedWrite ==
    /\ [][\A s \in Sockets, r \in RoomIds, c \in Texts :
            ( /\ r \in DOMAIN activeRoomSessions
              /\ s \in DOMAIN users
              /\ handleCodeUpdate(s, r, c) )
            => persistenceTimers' = MapSet(persistenceTimers, r,
                                          [obj |-> activeRoomSessions[r], left |-> DebounceTicks])]_vars
    /\ [][\A r \in RoomIds :
            ( /\ r \in DOMAIN activeRoomSessions
              /\ PersistTimerFire(r) )
            => /\ r \notin DOMAIN persistenceTimers'
               /\ TimerWrite(r, heap[activeRoomSessions[r]].code,
                                 heap[activeRoomSessions[r]].language)]_vars

\* C4: a session is removed from activeRoomSessions only after it has been without
\* participants for the whole grace period (60 s) counted from when it last became
\* empty, and a join of a session that is in memory keeps the session object and
\* its document.
C4_GracePeriod ==
    /\ [][\A r \in RoomIds :
            (r \in DOMAIN activeRoomSessions /\ r \notin DOMAIN activeRoomSessions')
            => emptyFor[r] >= GraceTicks]_vars
    /\ [][\A s \in Sockets, r \in RoomIds :
            (r \in DOMAIN activeRoomSessions /\ handleJoinRoom(s, r))
            => /\ activeRoomSessions' = activeRoomSessions
               /\ heap'[activeRoomSessions[r]].code = heap[activeRoomSessions[r]].code]_vars

\* C5: a session's participant list never holds two entries of one user identity.
C5_OneEntryPerIdentity ==
    \A o \in DOMAIN heap :
        \A i, j \in 1..Len(heap[o].participants) :
            UserOf(heap[o].participants[i]) = UserOf(heap[o].participants[j]) => i = j

\* tokens the handshake must refuse
BadTokens == {"missing", "expired", "badsig"}

\* participant entries of socket s, over all session objects
EntriesOf(h, s) ==
    Cardinality({<<o, i>> \in (DOMAIN h) \X (1..(MAX_PARTICIPANTS + 1)) :
                   i <= Len(h[o].participants) /\ h[o].participants[i] = s})

\* C6: a socket whose handshake token is missing, expired or wrongly signed is
\* refused with an error at the handshake, gets no listeners and never appears in
\* any state a handler writes (users, a pending join, a participant list, a room).
C6_HandshakeGate ==
    /\ [](\A s \in Sockets :
            token[s] \in BadTokens
            => /\ conn[s] = "refused"
               /\ ~listening[s]
               /\ s \notin DOMAIN users
               /\ s \notin DOMAIN discAwait
               /\ joinAwait[s] = NoRoomId
               /\ ioRooms[s] = {}
               /\ EntriesOf(heap, s) = 0)
    /\ [][\A s \in Sockets, t \in BadTokens :
            Handshake(s, t)
            => \E m \in out' : m.ev = "connect_error" /\ m.to = {s} /\ m.text # ""]_vars

\* a socket with an expired token was refused while another socket is in a session
C6_Witness ==
    \E s, p \in Sockets :
        /\ token[s] = "expired" /\ conn[s] = "refused"
        /\ p \in DOMAIN users /\ EntriesOf(heap, p) > 0

\* the step completes a join_room of socket s (directly, or after its load)
JoinStep(s, r) ==
    \/ (joinAwait[s] = NoRoomId /\ handleJoinRoom(s, r))
    \/ (joinAwait[s] = r /\ \E found \in BOOLEAN : JoinResume(s, found))

\* C7: a connection is Joined (in users) only through a join made while it is
\* connected; a code_update of a socket that is not Joined changes nothing; and
\* once a socket is disconnected no step adds it to users or changes a session
\* object or the session map on its behalf.
C7_ConnectionLifecycle ==
    /\ [][\A s \in Sockets :
            (s \notin DOMAIN users /\ s \in DOMAIN users')
            => (conn[s] = "connected" /\ \E r \in RoomIds : JoinStep(s, r))]_vars
    /\ [][\A s \in Sockets, r \in RoomIds \cup {NoRoomId}, c \in Texts :
            (s \notin DOMAIN users /\ handleCodeUpdate(s, r, c))
            => UNCHANGED <<heap, persistenceTimers>>]_vars
    /\ [][\A s \in Sockets, r \in RoomIds :
            (conn[s] = "disconnected" /\ JoinStep(s, r))
            => UNCHANGED <<heap, activeRoomSessions, users>>]_vars

\* connected sockets that have an entry in session object o
ConnectedParticipants(h, o, cn) == {p \in SeqRange(h[o].participants) : cn[p] = "connected"}

\* C8: a join that succeeds answers the joiner with the document the session of
\* that id holds in memory when the join is handled (as load_code sends it), and
\* sends the roster, the joiner included, to the connected members of the session.
C8_JoinReply ==
    [][\A s \in Sockets, r \in RoomIds :
         (JoinStep(s, r) /\ s \in DOMAIN users' /\ EntriesOf(heap', s) > EntriesOf(heap, s))
         => /\ r \in DOMAIN activeRoomSessions
               => \E m \in out' :
                      /\ m.ev = "load_code"
                      /\ m.to = ToSocket(s, conn)
                      /\ m.code = CodeOrEmpty(heap[activeRoomSessions[r]].code)
            /\ \E m \in out' :
                   /\ m.ev = "user_joined"
                   /\ m.roster = Roster(heap'[activeRoomSessions'[r]].participants)
                   /\ \E i \in 1..Len(m.roster) : m.roster[i] = UserOf(s)
                   /\ ConnectedParticipants(heap', activeRoomSessions'[r], conn) \subseteq m.to]_vars

C10_Disconnect ==
    /\ [][\A s \in Sockets :
            ( /\ s \in DOMAIN users
              /\ users[s] \in DOMAIN activeRoomSessions
              /\ handleDisconnect(s) )
            => LET r == users[s]
                   o == activeRoomSessions[r]
               IN  /\ s \notin SeqRange(heap'[o].participants)
                   /\ heap'[o].participants = FilterOut(heap[o].participants, s)
                   /\ dbWrites' = Append(dbWrites,
                                         persistRoomCode(r, heap[o].code, heap[o].language, s))
                   /\ \E m \in out' :
                          /\ out' = {m}
                          /\ m.ev = "user_left" /\ m.room = r
                          /\ m.roster = Roster(heap'[o].participants)
                          /\ ConnectedParticipants(heap', o, conn') \subseteq m.to
                          /\ s \notin m.to]_vars
    /\ [][\A s \in Sockets :
            (s \in DOMAIN discAwait /\ s \notin DOMAIN discAwait')
            => LET r == discAwait[s].roomId
                   o == discAwait[s].obj
               IN  IF heap[o].participants = <<>>
                   THEN evictionTimers'[r] = Append(evictionTimers[r], GraceTicks)
                   ELSE evictionTimers'[r] = evictionTimers[r]]_vars

\* the last participant left, its flush settled and the cleanup timer is pending
C10_Witness ==
    \E r \in DOMAIN activeRoomSessions, s \in Sockets :
        /\ conn[s] = "disconnected"
        /\ s \notin DOMAIN users
        /\ heap[activeRoomSessions[r]].participants = <<>>
        /\ evictionTimers[r] = <<GraceTicks>>
        /\ dbWrites = <<>>

\* the step is the exit of the process
ExitStep == proc.phase = "stopping" /\ proc'.phase = "exited"

\* C11: when the process exits after a shutdown signal no edit is still waiting for
\* its debounce timer: with no connection closed so far (so no disconnect has
\* flushed anything), a write carrying the document has been issued for every
\* armed timer; and a disconnect that leaves a session without participants issues
\* the write of its document in the same step.
C11_FlushOnShutdownOrEmpty ==
    /\ [][(ExitStep /\ \A s \in Sockets : conn[s] # "disconnected")
            => \A r \in DOMAIN persistenceTimers :
                   \E i \in 1..Len(dbWrites) :
                       /\ dbWrites[i].roomId = r
                       /\ dbWrites[i].code = heap[persistenceTimers[r].obj].code]_vars
    /\ [][\A s \in Sockets :
            ( /\ s \in DOMAIN users
              /\ users[s] \in DOMAIN activeRoomSessions
              /\ handleDisconnect(s)
              /\ heap'[activeRoomSessions[users[s]]].participants = <<>> )
            => LET r == users[s]
                   o == activeRoomSessions[r]
               IN  dbWrites' = Append(dbWrites,
                                      persistRoomCode(r, heap[o].code, heap[o].language, s))]_vars

\* C12: a durable write is an upsert keyed by the room id: when a write settles
\* without a fault of the store, the store holds the code and language the write
\* carried, also for a room that had no record before.
C12_UpsertWrite ==
    [][\A i \in 1..Len(dbWrites) :
         PersistDone(i, TRUE)
         => /\ dbWrites[i].roomId \in DOMAIN db'
            /\ db'[dbWrites[i].roomId] = [code |-> dbWrites[i].code,
                                          language |-> dbWrites[i].language]]_vars

\* the session of room r holds a document the store does not have, no timer is
\* armed and no write is in flight: the last write of it has failed
Unflushed(r) ==
    /\ r \in DOMAIN activeRoomSessions
    /\ r \in DOMAIN db
    /\ heap[activeRoomSessions[r]].code # db[r].code
    /\ r \notin DOMAIN persistenceTimers
    /\ dbWrites = <<>>

\* C13: a durable write that fails changes nothing in memory (documents, rosters,
\* the session map, the armed timers), emits nothing, and a disconnect waiting for
\* it completes as after a success; an edit of a session whose write has failed is
\* applied, broadcast and arms the debounce timer, and the firing of a timer armed
\* on the session in memory issues the write of the session's document.
C13_FailedWriteIsolated ==
    /\ [][\A i \in 1..Len(dbWrites) :
            PersistDone(i, FALSE)
            => /\ db' = db
               /\ out' = {}
               /\ activeRoomSessions' = activeRoomSessions
               /\ persistenceTimers' = persistenceTimers
               /\ \A o \in DOMAIN heap' : heap'[o] = heap[o]
               /\ Range(activeRoomSessions) \subseteq DOMAIN heap'
               /\ LET s == dbWrites[i].waiter
                  IN  s # NoSocket
                      => /\ s \notin DOMAIN users'
                         /\ s \notin DOMAIN discAwait'
                         /\ evictionTimers'[discAwait[s].roomId] =
                              IF heap[discAwait[s].obj].participants = <<>>
                              THEN Append(evictionTimers[discAwait[s].roomId], GraceTicks)
                              ELSE evictionTimers[discAwait[s].roomId]]_vars
    /\ [][\A s \in Sockets, r \in RoomIds, c \in Texts :
            (Unflushed(r) /\ s \in DOMAIN users /\ handleCodeUpdate(s, r, c))
            => /\ heap'[activeRoomSessions[r]].code = c
               /\ \E m \in out' : m.ev = "code_update" /\ m.code = c
               /\ r \in DOMAIN persistenceTimers'
               /\ persistenceTimers'[r] = [obj |-> activeRoomSessions[r], left |-> DebounceTicks]]_vars
    /\ [][\A r \in RoomIds :
            ( /\ r \in DOMAIN activeRoomSessions
              /\ r \in DOMAIN persistenceTimers
              /\ persistenceTimers[r].obj = activeRoomSessions[r]
              /\ PersistTimerFire(r) )
            => TimerWrite(r, heap[activeRoomSessions[r]].code,
                             heap[activeRoomSessions[r]].language)]_vars

\* the write of an edited document has failed: the store keeps the old record, the
\* session keeps the edit and its participant, and nothing is pending
C13_Witness ==
    \E r \in RoomIds, s \in Sockets :
        /\ Unflushed(r)
        /\ heap[activeRoomSessions[r]].code = "a"
        /\ s \in SeqRange(heap[activeRoomSessions[r]].participants)
        /\ conn[s] = "connected"
        /\ s \in DOMAIN users

\* C14: the cleanup of an empty session removes only its activeRoomSessions entry:
\* the store, the calls in flight, the timers and users stay as they are; and a
\* join of an id that is not in memory, whose load finds the record, starts the
\* session from the stored code and language and sends that code to the joiner.
C14_EvictionMemoryOnly ==
    /\ [][\A r \in RoomIds :
            EvictTimerFire(r)
            => /\ db' = db
               /\ dbWrites' = dbWrites
               /\ persistenceTimers' = persistenceTimers
               /\ users' = users
               /\ DOMAIN activeRoomSessions' \subseteq DOMAIN activeRoomSessions
               /\ \A q \in DOMAIN activeRoomSessions \ {r} :
                      /\ q \in DOMAIN activeRoomSessions'
                      /\ activeRoomSessions'[q] = activeRoomSessions[q]]_vars
    /\ [][\A s \in Sockets, r \in RoomIds :
            (joinAwait[s] = r /\ r \in DOMAIN db /\ JoinResume(s, TRUE))
            => /\ heap'[activeRoomSessions'[r]].code = db[r].code
               /\ heap'[activeRoomSessions'[r]].language = db[r].language
               /\ \E m \in out' :
                      /\ m.ev = "load_code"
                      /\ m.to = ToSocket(s, conn)
                      /\ m.code = CodeOrEmpty(db[r].code)]_vars

\* after an edit was flushed and its session evicted, a joiner has just been sent
\* the stored document: the participant who edited is gone, its cleanup timer has
\* fired, and the joiner is alone in a session loaded from the store
C14_Witness ==
    \E r \in DOMAIN activeRoomSessions, s, p \in Sockets :
        /\ s # p
        /\ conn[p] = "disconnected" /\ p \notin DOMAIN users
        /\ discAwait = <<>>
        /\ evictionTimers[r] = <<>>
        /\ r \in DOMAIN db /\ db[r].code = "a"
        /\ heap[activeRoomSessions[r]].participants = <<s>>
        /\ heap[activeRoomSessions[r]].code = "a"
        /\ \E m \in out : m.ev = "load_code" /\ m.to = {s} /\ m.code = "a"

\* BullMQ job states: Pending is waiting or delayed, Active is active
Pending == {"waiting", "delayed"}
Terminal == {"completed", "failed"}

\* C15: a job starts Pending, becomes Active only from Pending, reaches a terminal
\* state only from Active, and once in a terminal state it never changes again.
C15_JobLifecycle ==
    [][/\ Len(jobs') >= Len(jobs)
       /\ \A j \in JobIds :
            /\ (j > Len(jobs) /\ j <= Len(jobs')) => jobs'[j].state = "waiting"
            /\ j <= Len(jobs) =>
                 /\ jobs[j].state \in Pending \cup {"active"} \cup Terminal
                 /\ (jobs'[j].state = "active" /\ jobs[j].state # "active")
                        => jobs[j].state = "waiting"
                 /\ (jobs'[j].state \in Terminal /\ jobs[j].state \notin Terminal)
                        => jobs[j].state = "active"
                 /\ jobs[j].state \in Terminal => jobs'[j] = jobs[j]]_vars

\* a job has failed for good after its third attempt
C15_Witness ==
    \E j \in 1..Len(jobs) :
        jobs[j].state = "failed" /\ jobs[j].attemptsMade = DEFAULT_ATTEMPTS

\* JobStatus.TIMEOUT
TIMEOUT == "timeout"

\* C16: a run that outlasts the job's timeout is ended only by the kill of the
\* timeout handler; when the processor then finishes without a fault the job is
\* marked TimedOut (its state is JobStatus.TIMEOUT) and is not queued again.
C16_TimedOut ==
    [][\A j \in JobIds :
         j <= Len(jobs) =>
            /\ ( /\ jobs[j].phase = "running" /\ jobs[j].code.run = "hang"
                 /\ jobs'[j] # jobs[j] )
               => jobs'[j] = [jobs[j] EXCEPT !.phase = "killed"]
            /\ (jobs[j].phase = "killed" /\ RunClose(j, FALSE))
               => /\ jobs'[j].state = TIMEOUT
                  /\ jobs'[j].state \notin Pending \cup {"active"}]_vars

\* C17: with a worker that keeps running, every job the queue has accepted
\* eventually is in a terminal state (completed or failed), where it stays visible
\* to getJobStatus.
C17_JobTerminates ==
    \A j \in JobIds :
        [](j <= Len(jobs) => <>(j <= Len(jobs) /\ jobs[j].state \in Terminal))

\* a job was retried after a fault and then completed
C17_Witness ==
    \E j \in 1..Len(jobs) :
        jobs[j].state = "completed" /\ jobs[j].attemptsMade = DEFAULT_ATTEMPTS

\* C18: an async submission whose code is longer than 64KB or whose language the
\* service does not support is answered with an error and adds no job; every job
\* in the queue has code within the limit, a language the worker's executor has,
\* and the default retry policy (3 attempts, exponential backoff from 1000 ms).
C18_SubmissionValidated ==
    /\ [][\A code \in Codes, language \in Languages, r \in RoomIds \cup {NoRoomId},
            queued \in BOOLEAN :
            ( /\ SubmitAsync(code, language, r, queued)
              /\ (code.size > MAX_CODE_LENGTH \/ ~isLanguageSupported(language)) )
            => /\ jobs' = jobs
               /\ \E m \in out' : m.ev = "http_response" /\ SubSeq(m.text, 1, 1) = "4"]_vars
    /\ [](\A j \in 1..Len(jobs) :
            /\ jobs[j].code.size <= MAX_CODE_LENGTH
            /\ jobs[j].language \in EXECUTOR_LANGUAGE_CONFIG
            /\ jobs[j].attempts = DEFAULT_ATTEMPTS
            /\ jobs[j].backoff = BACKOFF_DELAY_MS
            /\ jobs[j].state = "delayed"
               => jobs[j].delay = BACKOFF_DELAY_MS * Pow2(jobs[j].attemptsMade - 1))

\* C19: a job whose program exits non-zero or writes to its error stream is
\* completed, not failed and not queued again, with a result that reports the
\* failure (success FALSE, the error output carried); and an attempt is retried
\* only after an infrastructure fault.
C19_ProgramFailureCompletes ==
    [][\A j \in JobIds :
         j <= Len(jobs) =>
            /\ ( /\ jobs[j].phase = "running" /\ jobs[j].code.run = "exit1"
                 /\ RunClose(j, FALSE) )
               => /\ jobs'[j].state = "completed"
                  /\ jobs'[j].returnvalue.success = FALSE
                  /\ jobs'[j].returnvalue.error = executeLocally("exit1", FALSE).stderr
            /\ (jobs[j].state = "active" /\ jobs'[j].state = "delayed")
               => (ExecStart(j, TRUE) \/ RunClose(j, TRUE))]_vars

\* C20: when a job with a roomId reaches a terminal state, the step emits its
\* result (execution_result or execution_error, carrying the job id) to exactly
\* the connected sockets that are in that room, and to nobody when the room has
\* none; the job is settled all the same.
C20_ResultToOriginRoom ==
    [][\A j \in JobIds :
         ( /\ j <= Len(jobs)
           /\ jobs[j].roomId # NoRoomId
           /\ jobs[j].state \notin Terminal
           /\ jobs'[j].state \in Terminal )
         => \E m \in out' :
                /\ out' = {m}
                /\ m.ev = IF jobs'[j].state = "completed"
                          THEN "execution_result" ELSE "execution_error"
                /\ m.jobId = j
                /\ m.room = jobs[j].roomId
                /\ m.to = IoMembers(jobs[j].roomId, ioRooms, conn)
                /\ jobs'[j].state = "completed" => m.code = jobs'[j].returnvalue.output
                /\ jobs'[j].state = "failed" => m.text = jobs'[j].failedReason]_vars

\* a result has just gone to the one socket in the job's room while another
\* socket is connected outside it
C20_Witness ==
    \E m \in out, s \in Sockets :
        /\ m.ev = "execution_result"
        /\ m.to # {}
        /\ conn[s] = "connected" /\ s \notin m.to
        /\ jobs[m.jobId].state = "completed"
        /\ m.code = "ok"

\* a job whose room has no connection has failed for good: nothing was delivered
C20_WitnessEmptyRoom ==
    \E m \in out :
        /\ m.ev = "execution_error"
        /\ m.to = {}
        /\ jobs[m.jobId].state = "failed"

\* the step is one of cancelJob's
CancelStep == (\E j \in JobIds : cancelJob(j)) \/ CancelGetState \/ CancelRemove

\* C21: cancelJob removes a job, and returns true, only when the job is waiting
\* or delayed at that moment; and no step of cancelJob changes a job that a worker
\* has claimed, also when the claim came after cancelJob had read the state.
C21_CancelOnlyQueued ==
    /\ [][\A j \in JobIds :
            ( /\ j <= Len(jobs)
              /\ \/ jobs[j].state # "removed" /\ jobs'[j].state = "removed"
                 \/ CancelRemove /\ cancelCall.jobId = j /\ cancelCall'.ret = "true" )
            => jobs[j].state \in Pending]_vars
    /\ [][\A j \in JobIds :
            (j <= Len(jobs) /\ jobs[j].state = "active" /\ CancelStep)
            => jobs'[j] = jobs[j]]_vars

\* C21, the part on a claimed job alone
C21_ClaimedJobUntouched ==
    [][\A j \in JobIds :
         (j <= Len(jobs) /\ jobs[j].state = "active" /\ CancelStep)
         => jobs'[j] = jobs[j]]_vars

\* the worker claimed the job after cancelJob had seen it waiting, and the
\* removal was refused
C21_WitnessRefused ==
    /\ cancelCall.ret = "throws"
    /\ \E j \in 1..Len(jobs) : jobs[j].state = "active"

C22_WitnessAtLimit ==
    /\ trunc.input # NoString
    /\ StrLen(trunc.input) = MAX_OUTPUT
    /\ trunc.once = trunc.input
    /\ trunc.twice = trunc.input

\* the step's response is the limiter's rejection
Rejected == \E m \in out' : m.ev = "http_response" /\ m.text = "429 Too many requests"

\* C23: a request the cache has counted as number c of its key is passed on while
\* c is at most the limit and is answered 429 with a retry-after value when c is
\* beyond it; a key that holds a count has its expiry set or being set by the
\* request that made the first increment; and at expiry the count is zero again.
C23_WindowLimit ==
    /\ [][\A q \in Requests :
            /\ (RateLimitIncr(q, TRUE) /\ rlKey.count >= 1)
               => IF rlKey.count + 1 <= EXECUTION_LIMIT
                  THEN out' = {PassOn}
                  ELSE \E m \in out' : /\ out' = {m}
                                       /\ m.text = "429 Too many requests"
                                       /\ m.retryAfter = EXECUTION_WINDOW_S
            /\ RateLimitExpire(q, TRUE) => out' = {PassOn}]_vars
    /\ [](rlKey.count > 0 => (rlKey.ttl > 0 \/ \E q \in Requests : rlReq[q] = "expire"))
    /\ [][KeyExpires => rlKey'.count = 0]_vars

\* C23, the limit alone: passed on up to the limit, 429 with retry-after beyond it
C23_LimitEnforced ==
    [][\A q \in Requests :
         /\ (RateLimitIncr(q, TRUE) /\ rlKey.count >= 1)
            => IF rlKey.count + 1 <= EXECUTION_LIMIT
               THEN out' = {PassOn}
               ELSE \E m \in out' : /\ out' = {m}
                                    /\ m.text = "429 Too many requests"
                                    /\ m.retryAfter = EXECUTION_WINDOW_S
         /\ RateLimitExpire(q, TRUE) => out' = {PassOn}]_vars

\* C24: a request whose increment fails in the cache (client.incr or client.expire
\* rejects) is passed on, and a request is rejected only when the cache has
\* counted it beyond the limit.
C24_FailOpen ==
    /\ [][\A q \in Requests :
            (RateLimitIncr(q, FALSE) \/ RateLimitExpire(q, FALSE)) => out' = {PassOn}]_vars
    /\ [][Rejected => /\ rlKey'.count > EXECUTION_LIMIT
                      /\ rlKey'.count = rlKey.count + 1]_vars

\* the key is over the limit and a request has just been passed on: the cache did
\* not answer it
C24_Witness ==
    /\ rlKey.count > EXECUTION_LIMIT
    /\ out = {PassOn}

\* C25: a request that is rejected as rate-limited leaves the counter of its key
\* as it was.
C25_RejectedNoQuota ==
    [][Rejected => rlKey'.count = rlKey.count]_vars

\* the step leaves the timers, the store, the writes in flight, the session map
\* and, of every session object, the document, the roster and the recording
Ephemeral ==
    /\ persistenceTimers' = persistenceTimers
    /\ evictionTimers' = evictionTimers
    /\ db' = db
    /\ dbWrites' = dbWrites
    /\ activeRoomSessions' = activeRoomSessions
    /\ users' = users
    /\ DOMAIN heap' = DOMAIN heap
    /\ \A o \in DOMAIN heap :
          /\ heap'[o].code = heap[o].code
          /\ heap'[o].language = heap[o].language
          /\ heap'[o].participants = heap[o].participants
          /\ heap'[o].recording = heap[o].recording
          /\ heap'[o].lastRecordTime = heap[o].lastRecordTime

\* C26: a cursor_move or typing event arms no persistence timer, causes no write,
\* appends no recording entry and leaves every session's document; a cursor move
\* changes at most the cursor position of the sender's own entry, typing changes
\* nothing, and both are sent to the other sockets of the room only.
C26_CursorTypingEphemeral ==
    /\ [][\A s \in Sockets, r \in RoomIds \cup {NoRoomId}, position \in Positions :
            handleCursorMove(s, r, position)
            => /\ Ephemeral
               /\ \A o \in DOMAIN heap :
                     \A p \in DOMAIN heap'[o].cursors :
                         \/ p \in DOMAIN heap[o].cursors /\ heap'[o].cursors[p] = heap[o].cursors[p]
                         \/ p = s /\ heap'[o].cursors[p] = position
               /\ \A m \in out' : m.ev = "cursor_update" /\ s \notin m.to
                                  /\ m.to \subseteq IoMembers(r, ioRooms, conn)]_vars
    /\ [][\A s \in Sockets, r \in RoomIds \cup {NoRoomId}, isTyping \in BOOLEAN :
            handleTyping(s, r, isTyping)
            => /\ Ephemeral
               /\ heap' = heap
               /\ \A m \in out' : m.ev \in {"user-typing", "user-stopped-typing"}
                                  /\ s \notin m.to
                                  /\ m.to \subseteq IoMembers(r, ioRooms, conn)]_vars

\* a participant's cursor move has just reached the other participant of a session
\* that has an edit in memory, with no timer armed and no write in flight
C26_Witness ==
    \E m \in out, r \in DOMAIN activeRoomSessions, s \in Sockets :
        /\ m.ev = "cursor_update" /\ m.to # {} /\ s \notin m.to
        /\ s \in DOMAIN heap[activeRoomSessions[r]].cursors
        /\ heap[activeRoomSessions[r]].cursors[s] = m.text
        /\ heap[activeRoomSessions[r]].code = "a"
        /\ heap[activeRoomSessions[r]].recording = MaxRecorded
        /\ persistenceTimers = <<>>
        /\ dbWrites = <<>>

\* C27: the recording of every session holds at most 1000 entries, whichever
\* handler appends to it.
C27_RecordingBounded ==
    \A o \in DOMAIN heap : heap[o].recording <= RECORDING_LIMIT

\* no debounce timer is armed on either instance and no write is in flight
Quiescent(r) ==
    /\ r \notin DOMAIN persistenceTimers
    /\ r \notin DOMAIN peer.persistenceTimers
    /\ dbWrites = <<>>

\* C28: with two service instances serving the same session, once the edits
\* have stopped and every pending flush has completed, a join on either instance
\* is answered with the document that is in the durable store.
C28_StoreIsTieBreaker ==
    [][\A r \in DOMAIN db :
          Quiescent(r) =>
              \A m \in out' : m.ev = "load_code" /\ m.room = r
                                 => m.code = CodeOrEmpty(db[r].code)]_vars

\* the live debounce timers of room r
LiveTimers(r) == {i \in 1..Len(timeouts) : timeouts[i].roomId = r}

\* C29: at every moment at most one persistence timer is live per session id,
\* and persistenceTimers holds exactly that timer: scheduling while one is armed
\* cancels it first, and a timer that fires removes itself from the map.
C29_OneTimerPerSession ==
    \A r \in RoomIds :
        /\ Cardinality(LiveTimers(r)) <= 1
        /\ r \in DOMAIN persistenceTimers <=> LiveTimers(r) # {}
        /\ \A i \in LiveTimers(r) :
              timeouts[i] = Timeout(r, persistenceTimers[r].obj, persistenceTimers[r].left)

\* a timer has fired and its write is applied, a later edit has armed the next one
C29_Witness ==
    \E r \in DOMAIN db \cap DOMAIN persistenceTimers :
        /\ db[r].code = "a"
        /\ Cardinality(LiveTimers(r)) = 1
        /\ heap[persistenceTimers[r].obj].code = NULL

\* C30: after a connection has disconnected, no session's participant list
\* contains an entry for that connection.
C30_NoEntryAfterDisconnect ==
    \A s \in Sockets :
        conn[s] = "disconnected"
            => \A r \in DOMAIN activeRoomSessions :
                  s \notin SeqRange(heap[activeRoomSessions[r]].participants)

\* the requests passed on within the last windowSeconds
PassedInWindow ==
    LET RECURSIVE Sum(_)
        Sum(i) == IF i = 0 THEN 0 ELSE passed[i] + Sum(i - 1)
    IN  Sum(WindowSlots)

\* C31: in every time interval of length windowSeconds, aligned to the counter's
\* expiry or not, the limiter passes on at most the configured limit of requests
\* of one key.
C31_SlidingWindow == PassedInWindow <= EXECUTION_LIMIT

\* no request is between its client.incr and its client.expire
NoExpirePending == \A q \in Requests : rlReq[q] # "expire"

\* C33: a rate-limit counter key that exists in the cache has an expiry, once
\* the request that created it is through cache.incr: in every interleaving of
\* requests and also when the cache fails between the increment and the expire.
C33_CounterHasExpiry ==
    (rlKey.count > 0 /\ NoExpirePending) => rlKey.ttl > 0

\* C32: for each session and each recording category, at most one recording
\* event is appended within any 5-second interval.
C32_RecordingThrottled ==
    \A o \in DOMAIN heap : \A type \in RecordTypes : heap[o].recent[type] <= 1

\* C32, the edits alone: at most one code_update event within 5 seconds
C32_CodeUpdateThrottled ==
    \A o \in DOMAIN heap : heap[o].recent["code_update"] <= 1

\* C34: an entry leaves activeRoomSessions only through a cleanup timer that
\* finds the session stored under the id without participants; a cleanup timer
\* that fires while the session stored there has a participant leaves the map
\* and the session as they are.
C34_EvictOnlyEmpty ==
    /\ [][\A r \in DOMAIN activeRoomSessions :
            r \notin DOMAIN activeRoomSessions'
            => /\ EvictTimerFire(r)
               /\ heap[activeRoomSessions[r]].participants = <<>>]_vars
    /\ [][\A r \in DOMAIN activeRoomSessions :
            (EvictTimerFire(r) /\ heap[activeRoomSessions[r]].participants # <<>>)
            => /\ activeRoomSessions' = activeRoomSessions
               /\ heap'[activeRoomSessions[r]] = heap[activeRoomSessions[r]]]_vars

\* a cleanup timer is due while the session stored under its id has a
\* participant again: the participant joined within the minute
C34_Witness ==
    \E r \in DOMAIN activeRoomSessions :
        /\ evictionTimers[r] # <<>>
        /\ Head(evictionTimers[r]) = 0
        /\ heap[activeRoomSessions[r]].participants # <<>>

\* C35: whenever no persistence timer is armed and no write is in flight for a
\* session, the store's document equals the session's in-memory document: the
\* writes of one session take effect in the order they were issued.
C35_WritesInOrder ==
    \A r \in DOMAIN activeRoomSessions \cap DOMAIN db :
        Quiescent(r) => db[r].code = heap[activeRoomSessions[r]].code

\* C36: a code_update changes the document of session r, and is broadcast into
\* r, only when the sending connection is a participant of r at that moment:
\* sent by a connection that is not in r's participant list and whose last join
\* was to another session or to none, it leaves r's document as it is and
\* emits nothing.
C36_EditByParticipantOnly ==
    [][\A s \in Sockets, r \in DOMAIN activeRoomSessions :
         ( /\ handleCodeUpdate(s, r, "a")
           /\ s \notin SeqRange(heap[activeRoomSessions[r]].participants)
           /\ (s \in DOMAIN users => users[s] # r) )
         => /\ heap'[activeRoomSessions[r]].code = heap[activeRoomSessions[r]].code
            /\ out' = {}]_vars

\* C37: a code_update whose code is null leaves the session's document as it
\* is, sends no null document to the other participants and arms no write; and
\* no write of a null document is ever issued to the store.
C37_NullSyncIsNoEdit ==
    /\ [][\A s \in Sockets, r \in DOMAIN activeRoomSessions :
            handleCodeUpdate(s, r, NULL)
            => /\ heap'[activeRoomSessions[r]].code = heap[activeRoomSessions[r]].code
               /\ \A m \in out' : m.ev = "code_update" => m.code # NULL
               /\ persistenceTimers' = persistenceTimers]_vars
    /\ [](\A i \in 1..Len(dbWrites) : dbWrites[i].code # NULL)

\* C38: a job that names a room sends that room at most one terminal event
\* (execution_result or execution_error) over all of its attempts, and has sent
\* exactly one when it has completed or failed for good.
C38_OneTerminalEvent ==
    \A j \in 1..Len(jobs) :
        jobs[j].roomId # NoRoomId
        => /\ emitted[j] <= 1
           /\ jobs[j].state \in {"completed", "failed"} => emitted[j] = 1

\* C39: a request of a user goes on to generate a hint only while no cooldown
\* period of that user is running, also when another request of the user is being
\* handled; and a request that finds the period running gets the cooldown notice,
\* asks no provider and records no hint_request.
C39_OneHintPerCooldown ==
    /\ [][\A s \in Sockets :
            HintCacheSet(s, TRUE) => hintCooldown[UserOf(s)] = 0]_vars
    /\ [][\A s \in Sockets :
            (HintCacheGet(s, TRUE) /\ hintCooldown[UserOf(s)] > 0)
            => /\ out' = {Msg("hint_response", ToSocket(s, conn), NoRoomId, "", <<>>,
                              "cooldown")}
               /\ s \notin DOMAIN execAwait'
               /\ \A o \in DOMAIN heap' : heap'[o].recording = heap[o].recording]_vars

====
